---- MODULE Spec2Model ----
(***************************************************************************)
(* A model of the ECX key management of wolfProvider,                      *)
(* src/wp_ecx_kmgmt.c: the reference-counted key object wp_Ecx, its        *)
(* parameter import and export, and its has and match checks.              *)
(*                                                                         *)
(* Three specifications share the variables:                               *)
(*   SpecSeq  one caller: wp_ecx_up_ref N-1 times, then wp_ecx_free N times*)
(*   SpecRef  several threads sharing one key object (multi-threaded build)*)
(*   Spec     the key management entry points on a small pool of keys      *)
(***************************************************************************)
EXTENDS Integers, Sequences, FiniteSets, TLC

(***************************************************************************)
(* Bounds of the model.                                                    *)
(***************************************************************************)
\* Largest N of the sequential up_ref/free scenario.
MaxN == 5
\* Number of threads sharing the key object.
NumThreads == 2
\* Largest number of references handed out at any one time.
MaxRefs == 3

Threads == 1..NumThreads

\* Number of distinct key values an input list can carry, per family.
NumVals == 2

\* The caller's key pointers.
KeyIds == {1, 2}

\* A null pointer.
NULL == [null |-> TRUE]

(***************************************************************************)
(* State of the reference-counting specifications.                         *)
(***************************************************************************)
VARIABLES
    refCnt,        \* wp_Ecx.refCnt of the shared key object
    mutex,         \* wp_Ecx.mutex: 0 when unlocked, else the thread holding it
    pc,            \* per thread: the statement of up_ref / free it is at
    rcv,           \* per thread: the local rc, the result of wc_LockMutex
    tmp,           \* per thread: the value read by the non-atomic ++ / --
    cntv,          \* per thread: the local cnt of wp_ecx_free
    held,          \* per thread: references the caller owns
    freeKeyCalls,  \* calls of (*ecx->data->freeKey) on the object
    deallocCalls,  \* calls of OPENSSL_free on the object
    planN,         \* SpecSeq: the N of the scenario (0 in the other specs)
    upCalls,       \* SpecSeq: calls of wp_ecx_up_ref made so far
    freeCalls      \* SpecSeq: calls of wp_ecx_free made so far

refVars == <<refCnt, mutex, pc, rcv, tmp, cntv, held, freeKeyCalls,
             deallocCalls, planN, upCalls, freeCalls>>

(***************************************************************************)
(* State of the key management specification.                              *)
(***************************************************************************)
VARIABLES
    keys,          \* the caller's key pointers: a wp_Ecx object or NULL each
    gen,           \* the caller's wp_EcxGenCtx pointer, and what happened to
                   \* the RNG and the storage of the context since gen_init
    dec,           \* the caller's wp_EcxEncDecCtx pointer: a context or NULL
    res            \* what the last entry point called was given and did

keyVars == <<keys, gen, dec, res>>

vars == <<refVars, keyVars>>

\* wc_LockMutex failed (BAD_MUTEX_E is negative).
LockFailed == -1

\* The statements at which a thread reads or writes refCnt.
CountAccess == {"up_read", "up_write", "free_read", "free_write"}

(***************************************************************************)
(* wc_LockMutex(&ecx->mutex): blocks while another thread holds the mutex; *)
(* returns 0 with the mutex held, or a negative value without it.  A       *)
(* caller that returns at once on failure leaves no local behind.          *)
(***************************************************************************)
wc_LockMutex(t, next) ==
    \/ /\ mutex = 0
       /\ mutex' = t
       /\ rcv' = [rcv EXCEPT ![t] = 0]
       /\ pc' = [pc EXCEPT ![t] = next.ok]
    \/ /\ mutex' = mutex
       /\ rcv' = [rcv EXCEPT ![t] = IF next.fail = "idle" THEN 0 ELSE LockFailed]
       /\ pc' = [pc EXCEPT ![t] = next.fail]

(***************************************************************************)
(* wp_ecx_up_ref, statement by statement.                                  *)
(***************************************************************************)
\* rc = wc_LockMutex(&ecx->mutex); if (rc < 0) ok = 0; ... return ok;
up_ref_Lock(t) ==
    /\ pc[t] = "up_lock"
    /\ wc_LockMutex(t, [ok |-> "up_read", fail |-> "idle"])
    /\ UNCHANGED <<refCnt, tmp, cntv, held, freeKeyCalls, deallocCalls,
                   planN, upCalls, freeCalls, keyVars>>

\* ecx->refCnt++ : the read
up_ref_Read(t) ==
    /\ pc[t] = "up_read"
    /\ tmp' = [tmp EXCEPT ![t] = refCnt]
    /\ pc' = [pc EXCEPT ![t] = "up_write"]
    /\ UNCHANGED <<refCnt, mutex, rcv, cntv, held, freeKeyCalls, deallocCalls,
                   planN, upCalls, freeCalls, keyVars>>

\* ecx->refCnt++ : the write
up_ref_Write(t) ==
    /\ pc[t] = "up_write"
    /\ refCnt' = tmp[t] + 1
    /\ pc' = [pc EXCEPT ![t] = "up_unlock"]
    /\ UNCHANGED <<mutex, rcv, tmp, cntv, held, freeKeyCalls, deallocCalls,
                   planN, upCalls, freeCalls, keyVars>>

\* wc_UnLockMutex(&ecx->mutex); return ok;  -- the caller now owns one more
\* reference; the locals go out of scope
up_ref_Unlock(t) ==
    /\ pc[t] = "up_unlock"
    /\ mutex' = 0
    /\ held' = [held EXCEPT ![t] = @ + 1]
    /\ pc' = [pc EXCEPT ![t] = "idle"]
    /\ tmp' = [tmp EXCEPT ![t] = 0]
    /\ UNCHANGED <<refCnt, rcv, cntv, freeKeyCalls, deallocCalls,
                   planN, upCalls, freeCalls, keyVars>>

(***************************************************************************)
(* wp_ecx_free, statement by statement.                                    *)
(***************************************************************************)
\* rc = wc_LockMutex(&ecx->mutex);  -- the result is not tested here
free_Lock(t) ==
    /\ pc[t] = "free_lock"
    /\ wc_LockMutex(t, [ok |-> "free_read", fail |-> "free_read"])
    /\ UNCHANGED <<refCnt, tmp, cntv, held, freeKeyCalls, deallocCalls,
                   planN, upCalls, freeCalls, keyVars>>

\* cnt = --ecx->refCnt : the read
free_Read(t) ==
    /\ pc[t] = "free_read"
    /\ tmp' = [tmp EXCEPT ![t] = refCnt]
    /\ pc' = [pc EXCEPT ![t] = "free_write"]
    /\ UNCHANGED <<refCnt, mutex, rcv, cntv, held, freeKeyCalls, deallocCalls,
                   planN, upCalls, freeCalls, keyVars>>

\* cnt = --ecx->refCnt : the write
free_Write(t) ==
    /\ pc[t] = "free_write"
    /\ refCnt' = tmp[t] - 1
    /\ cntv' = [cntv EXCEPT ![t] = tmp[t] - 1]
    /\ pc' = [pc EXCEPT ![t] = "free_unlock"]
    /\ UNCHANGED <<mutex, rcv, tmp, held, freeKeyCalls, deallocCalls,
                   planN, upCalls, freeCalls, keyVars>>

\* if (rc == 0) wc_UnLockMutex(&ecx->mutex);
free_Unlock(t) ==
    /\ pc[t] = "free_unlock"
    /\ mutex' = IF rcv[t] = 0 THEN 0 ELSE mutex
    /\ pc' = [pc EXCEPT ![t] = "free_test"]
    /\ UNCHANGED <<refCnt, rcv, tmp, cntv, held, freeKeyCalls, deallocCalls,
                   planN, upCalls, freeCalls, keyVars>>

\* Mutant of free_Test: the object is destroyed without the test cnt == 0.
free_Test_NoCountTest(t) ==
    /\ pc[t] = "free_test"
    /\ freeKeyCalls' = freeKeyCalls + 1
    /\ deallocCalls' = deallocCalls + 1
    /\ pc' = [pc EXCEPT ![t] = "idle"]
    /\ rcv' = [rcv EXCEPT ![t] = 0]
    /\ tmp' = [tmp EXCEPT ![t] = 0]
    /\ cntv' = [cntv EXCEPT ![t] = 0]
    /\ UNCHANGED <<refCnt, mutex, held, planN, upCalls, freeCalls, keyVars>>

\* if (cnt == 0) { wc_FreeMutex; (*ecx->data->freeKey)(&ecx->key);
\*                 OPENSSL_free(ecx); }   -- then the locals go out of scope
free_Test(t) ==
    /\ pc[t] = "free_test"
    /\ freeKeyCalls' = IF cntv[t] = 0 THEN freeKeyCalls + 1 ELSE freeKeyCalls
    /\ deallocCalls' = IF cntv[t] = 0 THEN deallocCalls + 1 ELSE deallocCalls
    /\ pc' = [pc EXCEPT ![t] = "idle"]
    /\ rcv' = [rcv EXCEPT ![t] = 0]
    /\ tmp' = [tmp EXCEPT ![t] = 0]
    /\ cntv' = [cntv EXCEPT ![t] = 0]
    /\ UNCHANGED <<refCnt, mutex, held, planN, upCalls, freeCalls, keyVars>>

\* One statement of whichever function thread t is in.
Step(t) ==
    \/ up_ref_Lock(t)
    \/ up_ref_Read(t)
    \/ up_ref_Write(t)
    \/ up_ref_Unlock(t)
    \/ free_Lock(t)
    \/ free_Read(t)
    \/ free_Write(t)
    \/ free_Unlock(t)
    \/ free_Test(t)

(***************************************************************************)
(* The key management variables where no entry point has been called.      *)
(***************************************************************************)
\* No generation context: nothing allocated, no RNG initialised.
NoGen == [ctx |-> NULL, rngInits |-> 0, rngFrees |-> 0, allocs |-> 0,
          frees |-> 0]

KeyIdle ==
    /\ keys = [k \in KeyIds |-> NULL]
    /\ gen = NoGen
    /\ dec = NULL
    /\ res = [op |-> "none"]

(***************************************************************************)
(* The state after wp_ecx_new: one reference, owned by thread 1.           *)
(***************************************************************************)
RefInit ==
    /\ refCnt = 1
    /\ mutex = 0
    /\ pc = [t \in Threads |-> "idle"]
    /\ rcv = [t \in Threads |-> 0]
    /\ tmp = [t \in Threads |-> 0]
    /\ cntv = [t \in Threads |-> 0]
    /\ held = [t \in Threads |-> IF t = 1 THEN 1 ELSE 0]
    /\ freeKeyCalls = 0
    /\ deallocCalls = 0
    /\ upCalls = 0
    /\ freeCalls = 0

(***************************************************************************)
(* SpecSeq: one caller runs the scenario of the reference-counting test:   *)
(* N-1 calls of wp_ecx_up_ref, then N calls of wp_ecx_free.  It goes on to *)
(* the releases only when every up_ref succeeded.                          *)
(***************************************************************************)
SeqInit ==
    /\ RefInit
    /\ KeyIdle
    /\ planN \in 1..MaxN

SeqUpRef ==
    /\ pc[1] = "idle"
    /\ freeCalls = 0
    /\ upCalls < planN - 1
    /\ held[1] = upCalls + 1
    /\ upCalls' = upCalls + 1
    /\ pc' = [pc EXCEPT ![1] = "up_lock"]
    /\ UNCHANGED <<refCnt, mutex, rcv, tmp, cntv, held, freeKeyCalls,
                   deallocCalls, planN, freeCalls, keyVars>>

SeqFree ==
    /\ pc[1] = "idle"
    /\ upCalls = planN - 1
    /\ held[1] = planN - freeCalls
    /\ freeCalls < planN
    /\ freeCalls' = freeCalls + 1
    /\ held' = [held EXCEPT ![1] = @ - 1]
    /\ pc' = [pc EXCEPT ![1] = "free_lock"]
    /\ UNCHANGED <<refCnt, mutex, rcv, tmp, cntv, freeKeyCalls, deallocCalls,
                   planN, upCalls, keyVars>>

SeqNext ==
    \/ SeqUpRef
    \/ SeqFree
    \/ Step(1)

SpecSeq == SeqInit /\ [][SeqNext]_vars

(***************************************************************************)
(* SpecRef: threads that follow the ownership discipline.  A thread calls  *)
(* wp_ecx_up_ref only while it owns a reference, calls wp_ecx_free only on *)
(* a reference it owns, and may hand a reference it owns to another thread.*)
(***************************************************************************)
RECURSIVE SumHeld(_)
SumHeld(S) ==
    IF S = {} THEN 0
    ELSE LET t == CHOOSE x \in S : TRUE IN held[t] + SumHeld(S \ {t})

\* Threads inside wp_ecx_up_ref.
InUpRef == {t \in Threads : pc[t] \in {"up_lock", "up_read", "up_write", "up_unlock"}}

\* References owned by callers, plus those being acquired.
Outstanding == Cardinality(InUpRef) + SumHeld(Threads)

CallUpRef(t) ==
    /\ pc[t] = "idle"
    /\ held[t] >= 1
    /\ deallocCalls = 0
    /\ Outstanding < MaxRefs
    /\ refCnt + Cardinality(InUpRef) < MaxRefs
    /\ pc' = [pc EXCEPT ![t] = "up_lock"]
    /\ UNCHANGED <<refCnt, mutex, rcv, tmp, cntv, held, freeKeyCalls,
                   deallocCalls, planN, upCalls, freeCalls, keyVars>>

CallFree(t) ==
    /\ pc[t] = "idle"
    /\ held[t] >= 1
    /\ deallocCalls = 0
    /\ held' = [held EXCEPT ![t] = @ - 1]
    /\ pc' = [pc EXCEPT ![t] = "free_lock"]
    /\ UNCHANGED <<refCnt, mutex, rcv, tmp, cntv, freeKeyCalls, deallocCalls,
                   planN, upCalls, freeCalls, keyVars>>

Share(t, u) ==
    /\ t # u
    /\ pc[t] = "idle"
    /\ held[t] >= 1
    /\ deallocCalls = 0
    /\ held' = [held EXCEPT ![t] = @ - 1, ![u] = @ + 1]
    /\ UNCHANGED <<refCnt, mutex, pc, rcv, tmp, cntv, freeKeyCalls,
                   deallocCalls, planN, upCalls, freeCalls, keyVars>>

RefThreadsInit ==
    /\ RefInit
    /\ KeyIdle
    /\ planN = 0

RefNext ==
    \E t \in Threads :
        \/ CallUpRef(t)
        \/ CallFree(t)
        \/ \E u \in Threads : Share(t, u)
        \/ Step(t)

SpecRef == RefThreadsInit /\ [][RefNext]_vars

(***************************************************************************)
(*                       Key management: the data                          *)
(***************************************************************************)
\* Selection bits of OpenSSL's key management interface.
OSSL_KEYMGMT_SELECT_PRIVATE_KEY == 1
OSSL_KEYMGMT_SELECT_PUBLIC_KEY == 2
OSSL_KEYMGMT_SELECT_DOMAIN_PARAMETERS == 4
OSSL_KEYMGMT_SELECT_OTHER_PARAMETERS == 128

\* F applied to the value of v, which is worked out once.
Let(v, F(_)) == CHOOSE y \in {F(x) : x \in {v}} : TRUE

RECURSIVE BitAnd(_, _)
BitAnd(a, b) ==
    IF a = 0 \/ b = 0 THEN 0
    ELSE (a % 2) * (b % 2) + 2 * BitAnd(a \div 2, b \div 2)

RECURSIVE BitOr(_, _)
BitOr(a, b) ==
    IF a = 0 THEN b
    ELSE IF b = 0 THEN a
    ELSE (IF a % 2 = 1 \/ b % 2 = 1 THEN 1 ELSE 0)
         + 2 * BitOr(a \div 2, b \div 2)

OSSL_KEYMGMT_SELECT_KEYPAIR ==
    BitOr(OSSL_KEYMGMT_SELECT_PRIVATE_KEY, OSSL_KEYMGMT_SELECT_PUBLIC_KEY)

OSSL_KEYMGMT_SELECT_ALL_PARAMETERS ==
    BitOr(OSSL_KEYMGMT_SELECT_DOMAIN_PARAMETERS,
          OSSL_KEYMGMT_SELECT_OTHER_PARAMETERS)

WP_ECX_POSSIBLE_SELECTIONS ==
    BitOr(OSSL_KEYMGMT_SELECT_KEYPAIR, OSSL_KEYMGMT_SELECT_ALL_PARAMETERS)

\* The selections the entry points are called with: nothing, each key part,
\* both, the domain parameters alone, and a bit outside the possible ones.
Selections == {0, 1, 2, 3, 4, 8}

\* Names of the parameters of a key.
OSSL_PKEY_PARAM_PUB_KEY == "pub"
OSSL_PKEY_PARAM_PRIV_KEY == "priv"
OSSL_PKEY_PARAM_ENCODED_PUBLIC_KEY == "encoded-pub-key"
OSSL_PKEY_PARAM_BITS == "bits"
OSSL_PKEY_PARAM_SECURITY_BITS == "security-bits"
OSSL_PKEY_PARAM_MAX_SIZE == "max-size"

WP_KEY_TYPE_X25519 == 1
WP_KEY_TYPE_X448 == 2
WP_KEY_TYPE_ED25519 == 3
WP_KEY_TYPE_ED448 == 4

\* Key sizes of wolfSSL, in bytes.
CURVE25519_KEYSIZE == 32
CURVE448_KEY_SIZE == 56
ED25519_KEY_SIZE == 32
ED448_KEY_SIZE == 57

WP_MAX_KEY_SIZE == ED448_KEY_SIZE

\* The descriptors: key type, bits, length, and the import and export
\* functions of the public key that the table names.
x25519Data ==
    [keyType |-> WP_KEY_TYPE_X25519, bits |-> 255, len |-> CURVE25519_KEYSIZE,
     importPub |-> "wp_x25519_import_public",
     exportPub |-> "wc_curve25519_export_public_ex"]

x448Data ==
    [keyType |-> WP_KEY_TYPE_X448, bits |-> 448, len |-> CURVE448_KEY_SIZE,
     importPub |-> "wc_curve448_import_public_ex",
     exportPub |-> "wc_curve448_export_public_ex"]

ed25519Data ==
    [keyType |-> WP_KEY_TYPE_ED25519, bits |-> 255, len |-> ED25519_KEY_SIZE,
     importPub |-> "wp_ed25519_import_public",
     exportPub |-> "wp_ed25519_export_public"]

ed448Data ==
    [keyType |-> WP_KEY_TYPE_ED448, bits |-> 448, len |-> ED448_KEY_SIZE,
     importPub |-> "wp_ed448_import_public",
     exportPub |-> "wp_ed448_export_public"]

EcxData == {x25519Data, x448Data, ed25519Data, ed448Data}

(***************************************************************************)
(* Key bytes.  The wolfSSL key of a wp_Ecx holds a public and a private    *)
(* value; OPENSSL_zalloc and initKey leave both zero, which is "not set".  *)
(***************************************************************************)
Zeros(n) == [i \in 1..n |-> 0]

\* The v-th key value of n bytes: the values differ in their last byte only.
KeyBytes(n, v) == [i \in 1..n |-> IF i = n THEN v ELSE 1]

KeyValues(n) == {KeyBytes(n, v) : v \in 1..NumVals}

\* The public value wolfSSL computes from a private value.
MakePublic(priv) == [i \in 1..Len(priv) |-> IF i = 1 THEN 2 ELSE priv[i]]

\* An entry of an OSSL_PARAM list: not in the list, present as an octet
\* string, or present with another data type.
Absent == [kind |-> "absent"]
WrongType == [kind |-> "utf8"]
Octets(b) == [kind |-> "octet", data |-> b]

\* The entries an input list carries for a key of n bytes: key values of the
\* right length, and one a byte short, which wolfSSL rejects.
ParamEntries(n) ==
    {Absent, WrongType, Octets(KeyBytes(n - 1, 1))}
        \cup {Octets(b) : b \in KeyValues(n)}

\* wp_params_get_octet_string_ptr: 1 with data NULL when the name is not in
\* the list, 0 when the entry is no octet string, else 1 with data and len.
wp_params_get_octet_string_ptr(entry) ==
    [ok |-> IF entry.kind = "utf8" THEN 0 ELSE 1,
     data |-> IF entry.kind = "octet" THEN entry.data ELSE NULL]

(***************************************************************************)
(* The primitives of wolfSSL behind a descriptor.  Each returns 0 or a     *)
(* negative value; a failing primitive leaves the key as it was.           *)
(***************************************************************************)
\* importPriv: the private value, of the family's length.
importPriv(d, in, key) ==
    IF Len(in) # d.len THEN [rc |-> -1, key |-> key]
    ELSE [rc |-> 0, key |-> [key EXCEPT !.priv = in]]

\* wc_*_import_public*: the public value, of the family's length.
wc_import_public(d, in, key) ==
    IF Len(in) # d.len THEN [rc |-> -1, key |-> key]
    ELSE [rc |-> 0, key |-> [key EXCEPT !.pub = in]]

\* wp_x25519_import_public: OpenSSL masks off the top bit of the last byte.
wp_x25519_import_public(d, in, key) ==
    LET n == CURVE25519_KEYSIZE
        masked == IF Len(in) >= n /\ in[n] >= 128
                  THEN [in EXCEPT ![n] = in[n] - 128]
                  ELSE in
    IN  wc_import_public(d, masked, key)

importPub(d, in, key) ==
    IF d.importPub = "wp_x25519_import_public"
    THEN wp_x25519_import_public(d, in, key)
    ELSE wc_import_public(d, in, key)

\* exportPub: the public value when set, else the one made from the private
\* value; fails when told to by the environment.
exportPub(d, key, fails) ==
    IF fails THEN [rc |-> -1, out |-> <<>>]
    ELSE [rc |-> 0,
          out |-> IF key.pub # Zeros(d.len) THEN key.pub
                  ELSE MakePublic(key.priv)]

\* exportPriv: the private value; fails when told to by the environment.
exportPriv(d, key, fails) ==
    IF fails THEN [rc |-> -1, out |-> <<>>]
    ELSE [rc |-> 0, out |-> key.priv]

\* wp_ecx_new that does not call freeKey when wc_InitMutex fails.
wp_ecx_new_NoFreeKey(data, running, why) ==
    LET allocated == running /\ why # "alloc"
        ok == allocated /\ why # "init" /\ why # "mutex"
    IN  [ecx |-> IF ok
                 THEN [data |-> data, refCnt |-> 1, includePublic |-> 0,
                       hasPub |-> 0, hasPriv |-> 0,
                       key |-> [pub |-> Zeros(data.len),
                                priv |-> Zeros(data.len)]]
                 ELSE NULL,
         allocs |-> IF allocated THEN 1 ELSE 0,
         freeKey |-> 0,
         frees |-> IF allocated /\ ~ok THEN 1 ELSE 0]

(***************************************************************************)
(* wp_ecx_new.  why is what the environment does to the call: "ok",        *)
(* "alloc" (OPENSSL_zalloc returns NULL), "init" (initKey fails) or        *)
(* "mutex" (wc_InitMutex fails).  Returns the object or NULL, and how      *)
(* often freeKey and OPENSSL_free were called.                             *)
(***************************************************************************)
wp_ecx_new(data, running, why) ==
    LET allocated == running /\ why # "alloc"
        initOk == allocated /\ why # "init"
        mutexOk == initOk /\ why # "mutex"
        ok == mutexOk
    IN  [ecx |-> IF ok
                 THEN [data |-> data, refCnt |-> 1, includePublic |-> 0,
                       hasPub |-> 0, hasPriv |-> 0,
                       key |-> [pub |-> Zeros(data.len),
                                priv |-> Zeros(data.len)]]
                 ELSE NULL,
         allocs |-> IF allocated THEN 1 ELSE 0,
         freeKey |-> IF initOk /\ ~mutexOk THEN 1 ELSE 0,
         frees |-> IF allocated /\ ~ok THEN 1 ELSE 0]

\* wp_ecx_has without the test of hasPriv.
wp_ecx_has_NoPrivTest(ecx, selection, running) ==
    LET ok1 == IF ~running THEN 0 ELSE 1
        ok2 == IF ecx = NULL THEN 0 ELSE ok1
        usePub == ok2 # 0
                  /\ BitAnd(selection, WP_ECX_POSSIBLE_SELECTIONS) # 0
                  /\ BitAnd(selection, OSSL_KEYMGMT_SELECT_PUBLIC_KEY) # 0
        ok3 == IF usePub /\ ecx # NULL THEN BitAnd(ok2, ecx.hasPub) ELSE ok2
    IN  [ok |-> ok3, derefNull |-> usePub /\ ecx = NULL]

(***************************************************************************)
(* wp_ecx_has.  Returns ok, and whether a null ecx was dereferenced.       *)
(***************************************************************************)
wp_ecx_has(ecx, selection, running) ==
    LET ok1 == IF ~running THEN 0 ELSE 1
        ok2 == IF ecx = NULL THEN 0 ELSE ok1
        inner == ok2 # 0 /\ BitAnd(selection, WP_ECX_POSSIBLE_SELECTIONS) # 0
        usePub == inner
                  /\ BitAnd(selection, OSSL_KEYMGMT_SELECT_PUBLIC_KEY) # 0
        ok3 == IF usePub /\ ecx # NULL THEN BitAnd(ok2, ecx.hasPub) ELSE ok2
        usePriv == inner
                   /\ BitAnd(selection, OSSL_KEYMGMT_SELECT_PRIVATE_KEY) # 0
        ok4 == IF usePriv /\ ecx # NULL THEN BitAnd(ok3, ecx.hasPriv) ELSE ok3
    IN  [ok |-> ok4, derefNull |-> (usePub \/ usePriv) /\ ecx = NULL]

(***************************************************************************)
(* wp_ecx_import.  privE and pubE are the entries of the input list named  *)
(* private-key and public-key.  Returns ok, the object as it is left, the  *)
(* data pointers, and the calls of the primitives with their results.      *)
(***************************************************************************)
\* The private key of wp_ecx_import with hasPub left as it is.
import_private_PrivFlagOnly(ecx, selection, privE) ==
    IF BitAnd(selection, OSSL_KEYMGMT_SELECT_PRIVATE_KEY) = 0
    THEN [ok |-> 1, ecx |-> ecx, privData |-> NULL, privCalls |-> 0,
          privRc |-> 0]
    ELSE IF wp_params_get_octet_string_ptr(privE).ok = 0
    THEN [ok |-> 0, ecx |-> ecx, privData |-> NULL, privCalls |-> 0,
          privRc |-> 0]
    ELSE IF wp_params_get_octet_string_ptr(privE).data = NULL
    THEN [ok |-> 1, ecx |-> ecx, privData |-> NULL, privCalls |-> 0,
          privRc |-> 0]
    ELSE Let(importPriv(ecx.data, privE.data, ecx.key),
             LAMBDA r :
               [ok |-> IF r.rc # 0 THEN 0 ELSE 1,
                ecx |-> IF r.rc # 0 THEN [ecx EXCEPT !.key = r.key]
                        ELSE [ecx EXCEPT !.key = r.key, !.hasPriv = 1],
                privData |-> privE.data, privCalls |-> 1, privRc |-> r.rc])

\* Lines 812-828: the private key.
import_private(ecx, selection, privE) ==
    IF BitAnd(selection, OSSL_KEYMGMT_SELECT_PRIVATE_KEY) = 0
    THEN [ok |-> 1, ecx |-> ecx, privData |-> NULL, privCalls |-> 0,
          privRc |-> 0]
    ELSE IF wp_params_get_octet_string_ptr(privE).ok = 0
    THEN [ok |-> 0, ecx |-> ecx, privData |-> NULL, privCalls |-> 0,
          privRc |-> 0]
    ELSE IF wp_params_get_octet_string_ptr(privE).data = NULL
    THEN [ok |-> 1, ecx |-> ecx, privData |-> NULL, privCalls |-> 0,
          privRc |-> 0]
    ELSE Let(importPriv(ecx.data, privE.data, ecx.key),
             LAMBDA r :
               [ok |-> IF r.rc # 0 THEN 0 ELSE 1,
                ecx |-> IF r.rc # 0 THEN [ecx EXCEPT !.key = r.key]
                        ELSE [ecx EXCEPT !.key = r.key, !.hasPriv = 1,
                                         !.hasPub = 1],
                privData |-> privE.data, privCalls |-> 1, privRc |-> r.rc])

\* Lines 829-844: the public key.
import_public(ecx, selection, pubE) ==
    IF BitAnd(selection, OSSL_KEYMGMT_SELECT_PUBLIC_KEY) = 0
    THEN [ok |-> 1, ecx |-> ecx, pubData |-> NULL, pubCalls |-> 0,
          pubRc |-> 0]
    ELSE IF wp_params_get_octet_string_ptr(pubE).ok = 0
    THEN [ok |-> 0, ecx |-> ecx, pubData |-> NULL, pubCalls |-> 0,
          pubRc |-> 0]
    ELSE IF wp_params_get_octet_string_ptr(pubE).data = NULL
    THEN [ok |-> 1, ecx |-> ecx, pubData |-> NULL, pubCalls |-> 0,
          pubRc |-> 0]
    ELSE Let(importPub(ecx.data, pubE.data, ecx.key),
             LAMBDA r :
               [ok |-> IF r.rc # 0 THEN 0 ELSE 1,
                ecx |-> IF r.rc # 0 THEN [ecx EXCEPT !.key = r.key]
                        ELSE [ecx EXCEPT !.key = r.key, !.hasPub = 1],
                pubData |-> pubE.data, pubCalls |-> 1, pubRc |-> r.rc])

wp_ecx_import(ecx, selection, privE, pubE, running) ==
    IF (~running) \/ ecx = NULL
    THEN [ok |-> 0, ecx |-> ecx, privCalls |-> 0, privRc |-> 0,
          pubCalls |-> 0, pubRc |-> 0]
    ELSE IF BitAnd(selection, WP_ECX_POSSIBLE_SELECTIONS) = 0
    THEN [ok |-> 0, ecx |-> ecx, privCalls |-> 0, privRc |-> 0,
          pubCalls |-> 0, pubRc |-> 0]
    ELSE Let(import_private(ecx, selection, privE),
             LAMBDA a :
               IF a.ok = 0
               THEN [ok |-> 0, ecx |-> a.ecx, privCalls |-> a.privCalls,
                     privRc |-> a.privRc, pubCalls |-> 0, pubRc |-> 0]
               ELSE Let(import_public(a.ecx, selection, pubE),
                        LAMBDA b :
                          [ok |-> IF b.ok # 0 /\ a.privData = NULL
                                     /\ b.pubData = NULL
                                  THEN 0 ELSE b.ok,
                           ecx |-> b.ecx, privCalls |-> a.privCalls,
                           privRc |-> a.privRc, pubCalls |-> b.pubCalls,
                           pubRc |-> b.pubRc]))

(***************************************************************************)
(* wp_ecx_export.  The transient buffer is a sequence of bytes; a byte     *)
(* that OPENSSL_malloc returned and nothing wrote is Junk.  An entry of    *)
(* the parameter list points into the buffer: name, offset and length.     *)
(***************************************************************************)
Junk == -1

\* What the environment does to a call that exports: nothing, or it makes
\* the public or the private export primitive fail.
ExportFaults == {"none", "pub", "priv"}

\* The buffer with the bytes of out stored from offset idx on.
Put(data, idx, out) ==
    [i \in 1..Len(data) |->
        IF i > idx /\ i <= idx + Len(out) THEN out[i - idx] ELSE data[i]]

wp_ecx_export_keypair_alloc_size(ecx, priv) ==
    ecx.data.len + (IF priv THEN ecx.data.len ELSE 0)

\* wp_param_set_octet_string_ptr: the entry, pointing at data + idx.
wp_param_set_octet_string_ptr(name, idx, outLen) ==
    [key |-> name, at |-> idx, len |-> outLen]

\* Lines 964-971, entered with ok set: the private key.  pub is the state
\* the public part left: params, data, idx.
export_keypair_private(ecx, pub, fault) ==
    Let(exportPriv(ecx.data, ecx.key, fault = "priv"),
        LAMBDA q :
          [ok |-> 1,
           params |-> Append(pub.params,
                             wp_param_set_octet_string_ptr(
                                 OSSL_PKEY_PARAM_PUB_KEY, pub.idx,
                                 ecx.data.len)),
           data |-> IF q.rc = 0 THEN Put(pub.data, pub.idx, q.out)
                    ELSE pub.data,
           idx |-> pub.idx,
           written |-> IF q.rc = 0
                       THEN pub.written
                            \cup ((pub.idx + 1)..(pub.idx + Len(q.out)))
                       ELSE pub.written,
           pubRc |-> 0, privCalls |-> 1, privRc |-> q.rc])

wp_ecx_export_keypair(ecx, data, idx, priv, fault) ==
    Let(exportPub(ecx.data, ecx.key, fault = "pub"),
        LAMBDA p :
          IF p.rc # 0
          THEN [ok |-> 0, params |-> <<>>, data |-> data, idx |-> idx,
                written |-> {}, pubRc |-> p.rc, privCalls |-> 0,
                privRc |-> 0]
          ELSE Let([params |-> <<wp_param_set_octet_string_ptr(
                                     OSSL_PKEY_PARAM_PUB_KEY, idx,
                                     Len(p.out))>>,
                    data |-> Put(data, idx, p.out),
                    idx |-> idx + Len(p.out),
                    written |-> (idx + 1)..(idx + Len(p.out))],
                   LAMBDA pub :
                     IF priv
                     THEN export_keypair_private(ecx, pub, fault)
                     ELSE [ok |-> 1, params |-> pub.params,
                           data |-> pub.data, idx |-> pub.idx,
                           written |-> pub.written, pubRc |-> 0,
                           privCalls |-> 0, privRc |-> 0]))

\* What the sink reads through the entries of the list.
SinkView(params, data) ==
    [i \in 1..Len(params) |->
        [key |-> params[i].key,
         data |-> SubSeq(data, params[i].at + 1,
                         params[i].at + params[i].len)]]

\* OPENSSL_clear_free(data, len): the first len bytes zeroed, then released.
OPENSSL_clear_free(data, len) ==
    [i \in 1..Len(data) |-> IF i <= len THEN 0 ELSE data[i]]

\* allocOk: OPENSSL_malloc returns a buffer; sinkRet: what paramCb returns.
\* Returns ok, the calls of the sink with the list it saw, the buffers
\* allocated and released, and the buffer as it is when released.
wp_ecx_export(ecx, selection, allocOk, fault, sinkRet) ==
    IF ~allocOk
    THEN [ok |-> 0, sinkCalls |-> 0, params |-> <<>>, allocs |-> 0,
          frees |-> 0, written |-> {}, released |-> <<>>, pubRc |-> 0,
          privCalls |-> 0, privRc |-> 0]
    ELSE Let(wp_ecx_export_keypair(
                 ecx,
                 [i \in 1..wp_ecx_export_keypair_alloc_size(
                               ecx,
                               BitAnd(selection,
                                      OSSL_KEYMGMT_SELECT_PRIVATE_KEY) # 0)
                    |-> Junk],
                 0,
                 BitAnd(selection, OSSL_KEYMGMT_SELECT_PRIVATE_KEY) # 0,
                 fault),
             LAMBDA r :
               [ok |-> IF r.ok = 0 THEN 0 ELSE sinkRet,
                sinkCalls |-> IF r.ok = 0 THEN 0 ELSE 1,
                params |-> IF r.ok = 0 THEN <<>>
                           ELSE SinkView(r.params, r.data),
                allocs |-> 1, frees |-> 1, written |-> r.written,
                released |-> OPENSSL_clear_free(r.data, r.idx),
                pubRc |-> r.pubRc, privCalls |-> r.privCalls,
                privRc |-> r.privRc])

(***************************************************************************)
(* wp_ecx_match.  fails1 and fails2 are the export primitives that the     *)
(* environment makes fail on the first and on the second object: a subset  *)
(* of {"priv", "pub"} each.  Returns ok and the calls of the primitives.   *)
(***************************************************************************)
\* A stack buffer of WP_MAX_KEY_SIZE bytes with out stored at its start.
KeyBuffer(out) == Put([i \in 1..WP_MAX_KEY_SIZE |-> Junk], 0, out)

\* The first position below n + 1 where the buffers differ, or 0.
RECURSIVE FirstDiff(_, _, _, _)
FirstDiff(key1, key2, i, n) ==
    IF i > n THEN 0
    ELSE IF key1[i] # key2[i] THEN i
    ELSE FirstDiff(key1, key2, i + 1, n)

XMEMCMP_AllButLast(key1, key2, n) ==
    Let(FirstDiff(key1, key2, 1, n - 1),
        LAMBDA i : IF i = 0 THEN 0 ELSE IF key1[i] < key2[i] THEN -1 ELSE 1)

\* memcmp: the sign of the first difference in the first n bytes.
XMEMCMP(key1, key2, n) ==
    Let(FirstDiff(key1, key2, 1, n),
        LAMBDA i : IF i = 0 THEN 0 ELSE IF key1[i] < key2[i] THEN -1 ELSE 1)

\* Lines 604-609 and 648-653: the lengths, then the bytes.
match_compare(e1, e2) ==
    IF Len(e1.out) # Len(e2.out) THEN 0
    ELSE IF XMEMCMP(KeyBuffer(e1.out), KeyBuffer(e2.out), Len(e1.out)) # 0
    THEN 0
    ELSE 1

wp_ecx_match_priv_key(ecx1, ecx2, fails1, fails2) ==
    IF ~(ecx1.hasPriv # 0 /\ ecx2.hasPriv # 0)
    THEN [ok |-> 0, calls |-> 0]
    ELSE Let(exportPriv(ecx1.data, ecx1.key, "priv" \in fails1),
             LAMBDA e1 :
               IF e1.rc # 0 THEN [ok |-> 0, calls |-> 1]
               ELSE Let(exportPriv(ecx2.data, ecx2.key, "priv" \in fails2),
                        LAMBDA e2 :
                          IF e2.rc # 0 THEN [ok |-> 0, calls |-> 2]
                          ELSE [ok |-> match_compare(e1, e2), calls |-> 2]))

wp_ecx_match_pub_key_GreaterTest(ecx1, ecx2, fails1, fails2) ==
    IF ~(ecx1.hasPub # 0 /\ ecx2.hasPub # 0)
    THEN [ok |-> 0, calls |-> 0]
    ELSE Let(exportPub(ecx1.data, ecx1.key, "pub" \in fails1),
             LAMBDA e1 :
               IF e1.rc # 0 THEN [ok |-> 0, calls |-> 1]
               ELSE Let(exportPub(ecx2.data, ecx2.key, "pub" \in fails2),
                        LAMBDA e2 :
                          IF e2.rc # 0 THEN [ok |-> 0, calls |-> 2]
                          ELSE [ok |-> IF Len(e1.out) # Len(e2.out) THEN 0
                                       ELSE IF XMEMCMP(KeyBuffer(e1.out),
                                                       KeyBuffer(e2.out),
                                                       Len(e1.out)) > 0
                                       THEN 0 ELSE 1,
                                calls |-> 2]))

wp_ecx_match_pub_key(ecx1, ecx2, fails1, fails2) ==
    IF ~(ecx1.hasPub # 0 /\ ecx2.hasPub # 0)
    THEN [ok |-> 0, calls |-> 0]
    ELSE Let(exportPub(ecx1.data, ecx1.key, "pub" \in fails1),
             LAMBDA e1 :
               IF e1.rc # 0 THEN [ok |-> 0, calls |-> 1]
               ELSE Let(exportPub(ecx2.data, ecx2.key, "pub" \in fails2),
                        LAMBDA e2 :
                          IF e2.rc # 0 THEN [ok |-> 0, calls |-> 2]
                          ELSE [ok |-> match_compare(e1, e2), calls |-> 2]))

\* Lines 682-685, entered with ok set.
match_public(ecx1, ecx2, selection, fails1, fails2, privCalls) ==
    IF BitAnd(selection, OSSL_KEYMGMT_SELECT_PUBLIC_KEY) = 0
    THEN [ok |-> 1, privCalls |-> privCalls, pubCalls |-> 0]
    ELSE Let(wp_ecx_match_pub_key(ecx1, ecx2, fails1, fails2),
             LAMBDA r : [ok |-> r.ok, privCalls |-> privCalls,
                         pubCalls |-> r.calls])

wp_ecx_match(ecx1, ecx2, selection, running, fails1, fails2) ==
    IF ~running
    THEN [ok |-> 0, privCalls |-> 0, pubCalls |-> 0]
    ELSE IF selection # 0 /\ ecx1.data.keyType # ecx2.data.keyType
    THEN [ok |-> 0, privCalls |-> 0, pubCalls |-> 0]
    ELSE IF BitAnd(selection, OSSL_KEYMGMT_SELECT_PRIVATE_KEY) = 0
    THEN match_public(ecx1, ecx2, selection, fails1, fails2, 0)
    ELSE Let(wp_ecx_match_priv_key(ecx1, ecx2, fails1, fails2),
             LAMBDA r :
               IF r.ok = 0
               THEN [ok |-> 0, privCalls |-> r.calls, pubCalls |-> 0]
               ELSE match_public(ecx1, ecx2, selection, fails1, fails2,
                                 r.calls))

(***************************************************************************)
(* wp_ecx_up_ref and wp_ecx_free as one caller at a time sees them: the    *)
(* whole call on one object.  lockOk is whether wc_LockMutex succeeds.     *)
(***************************************************************************)
\* wp_ecx_up_ref that counts like wp_ecx_free: whatever wc_LockMutex said.
up_ref_CountAnyway(ecx, lockOk) ==
    [ok |-> IF lockOk THEN 1 ELSE 0, ecx |-> [ecx EXCEPT !.refCnt = @ + 1],
     unlocks |-> IF lockOk THEN 1 ELSE 0]

\* unlocks is the number of calls of wc_UnLockMutex.
up_ref(ecx, lockOk) ==
    IF lockOk
    THEN [ok |-> 1, ecx |-> [ecx EXCEPT !.refCnt = @ + 1], unlocks |-> 1]
    ELSE [ok |-> 0, ecx |-> ecx, unlocks |-> 0]

\* Returns the object, or NULL when it was destroyed, and the calls of
\* freeKey and OPENSSL_free.
free(ecx) ==
    IF ecx = NULL THEN [ecx |-> NULL, freeKey |-> 0, frees |-> 0]
    ELSE IF ecx.refCnt - 1 = 0
    THEN [ecx |-> NULL, freeKey |-> 1, frees |-> 1]
    ELSE [ecx |-> [ecx EXCEPT !.refCnt = @ - 1], freeKey |-> 0, frees |-> 0]

(***************************************************************************)
(* wp_ecx_dup.  running and why are the environment of its wp_ecx_new.     *)
(***************************************************************************)
wp_ecx_dup_Selected(src, selection, running, why) ==
    Let(wp_ecx_new(src.data, running, why),
        LAMBDA n :
          IF n.ecx = NULL THEN NULL
          ELSE [n.ecx EXCEPT
                  !.key = src.key,
                  !.includePublic = src.includePublic,
                  !.hasPub = src.hasPub,
                  !.hasPriv =
                      IF BitAnd(selection,
                                OSSL_KEYMGMT_SELECT_PRIVATE_KEY) # 0
                      THEN src.hasPriv ELSE 0])

wp_ecx_dup(src, selection, running, why) ==
    Let(wp_ecx_new(src.data, running, why),
        LAMBDA n :
          IF n.ecx = NULL THEN NULL
          ELSE [n.ecx EXCEPT !.key = src.key,
                             !.includePublic = src.includePublic,
                             !.hasPub = src.hasPub,
                             !.hasPriv = src.hasPriv])

\* wp_ecx_load: what was in the slot, and the slot as it is left.
wp_ecx_load_KeepSlot(pEcx) == [ret |-> pEcx, slot |-> pEcx]

wp_ecx_load(pEcx) == [ret |-> pEcx, slot |-> NULL]

(***************************************************************************)
(* Key generation.  A C string is the sequence of its character codes, the *)
(* terminating NUL included.                                               *)
(***************************************************************************)
NUL == 0

\* The short names of OpenSSL that the gen_init functions pass as name.
SN_X25519 == <<88, 50, 53, 53, 49, 57, NUL>>
SN_X448 == <<88, 52, 52, 56, NUL>>
SN_ED25519 == <<69, 68, 50, 53, 53, 49, 57, NUL>>
SN_ED448 == <<69, 68, 52, 52, 56, NUL>>

\* The name that the gen_init function of a family passes with its table.
NameOf(data) ==
    CASE data.keyType = WP_KEY_TYPE_X25519 -> SN_X25519
      [] data.keyType = WP_KEY_TYPE_X448 -> SN_X448
      [] data.keyType = WP_KEY_TYPE_ED25519 -> SN_ED25519
      [] data.keyType = WP_KEY_TYPE_ED448 -> SN_ED448

\* The position of the first NUL from position i on, less one.
RECURSIVE strlen_from(_, _)
strlen_from(str, i) == IF str[i] = NUL THEN i - 1 ELSE strlen_from(str, i + 1)

XSTRLEN(str) == strlen_from(str, 1)

\* strncmp from position i on: the difference of the first characters that
\* differ among the first n, 0 when there is none before n or the end.
RECURSIVE strncmp_from(_, _, _, _)
strncmp_from(s1, s2, i, n) ==
    IF i > n THEN 0
    ELSE IF s1[i] # s2[i] THEN s1[i] - s2[i]
    ELSE IF s1[i] = NUL THEN 0
    ELSE strncmp_from(s1, s2, i + 1, n)

XSTRNCMP(s1, s2, n) == strncmp_from(s1, s2, 1, n)

\* An entry of an OSSL_PARAM list that is a UTF-8 string.
Utf8(str) == [kind |-> "utf8", data |-> str]

\* wp_params_get_utf8_string_ptr: 1 with name NULL when group-name is not in
\* the list, 0 when the entry is no UTF-8 string, else 1 with name pointing
\* at the string.
wp_params_get_utf8_string_ptr(entry) ==
    [ok |-> IF entry.kind = "octet" THEN 0 ELSE 1,
     name |-> IF entry.kind = "utf8" THEN [str |-> entry.data] ELSE NULL]

wp_ecx_gen_set_params(ctx, entry) ==
    IF wp_params_get_utf8_string_ptr(entry).ok = 0 THEN 0
    ELSE IF wp_params_get_utf8_string_ptr(entry).name # NULL
            /\ XSTRNCMP(wp_params_get_utf8_string_ptr(entry).name.str,
                        ctx.name,
                        XSTRLEN(wp_params_get_utf8_string_ptr(entry).name.str))
               # 0
    THEN 0
    ELSE 1

\* The ways a call of wp_ecx_gen_init can go: "alloc" is OPENSSL_zalloc
\* returning NULL, "rng" is wc_InitRng failing.
GenOutcomes == {"ok", "alloc", "rng"}

\* wp_ecx_gen_init.  Returns the context or NULL, and what was allocated,
\* released, and done to the RNG.
wp_ecx_gen_init_KeepRng(selection, entry, data, name, running, why) ==
    IF ~(running /\ BitAnd(selection, WP_ECX_POSSIBLE_SELECTIONS) # 0)
       \/ why = "alloc"
    THEN NoGen
    ELSE IF why = "rng"
    THEN [ctx |-> NULL, rngInits |-> 0, rngFrees |-> 0, allocs |-> 1,
          frees |-> 1]
    ELSE IF wp_ecx_gen_set_params([name |-> name], entry) = 0
    THEN [ctx |-> NULL, rngInits |-> 1, rngFrees |-> 0, allocs |-> 1,
          frees |-> 1]
    ELSE [ctx |-> [data |-> data, selection |-> selection, name |-> name],
          rngInits |-> 1, rngFrees |-> 0, allocs |-> 1, frees |-> 0]

wp_ecx_gen_init(selection, entry, data, name, running, why) ==
    IF ~(running /\ BitAnd(selection, WP_ECX_POSSIBLE_SELECTIONS) # 0)
       \/ why = "alloc"
    THEN NoGen
    ELSE IF why = "rng"
    THEN [ctx |-> NULL, rngInits |-> 0, rngFrees |-> 0, allocs |-> 1,
          frees |-> 1]
    ELSE IF wp_ecx_gen_set_params([name |-> name], entry) = 0
    THEN [ctx |-> NULL, rngInits |-> 1, rngFrees |-> 1, allocs |-> 1,
          frees |-> 1]
    ELSE [ctx |-> [data |-> data, selection |-> selection, name |-> name],
          rngInits |-> 1, rngFrees |-> 0, allocs |-> 1, frees |-> 0]

\* wp_ecx_gen_cleanup, on what gen holds.
wp_ecx_gen_cleanup(g) ==
    [g EXCEPT !.ctx = NULL, !.rngFrees = @ + 1, !.frees = @ + 1]

\* makeKey: the key pair the RNG gives, the v-th here; fails when told to.
makeKey(d, key, v, fails) ==
    IF fails THEN [rc |-> -1, key |-> key]
    ELSE [rc |-> 0,
          key |-> [pub |-> MakePublic(KeyBytes(d.len, v)),
                   priv |-> KeyBytes(d.len, v)]]

\* Lines 1150-1161 without the wp_ecx_free of the object.
gen_make_KeepObject(ctx, ecx, v, makeFails) ==
    Let(makeKey(ctx.data, ecx.key, v, makeFails),
        LAMBDA m :
          IF m.rc # 0
          THEN [ecx |-> NULL, makeCalls |-> 1, freeKey |-> 0, frees |-> 0]
          ELSE [ecx |-> [ecx EXCEPT !.key = m.key, !.hasPub = 1,
                                    !.hasPriv = 1],
                makeCalls |-> 1, freeKey |-> 0, frees |-> 0])

\* Lines 1150-1161, with the object that wp_ecx_new returned.
gen_make(ctx, ecx, v, makeFails) ==
    Let(makeKey(ctx.data, ecx.key, v, makeFails),
        LAMBDA m :
          IF m.rc # 0
          THEN [ecx |-> free(ecx).ecx, makeCalls |-> 1,
                freeKey |-> free(ecx).freeKey, frees |-> free(ecx).frees]
          ELSE [ecx |-> [ecx EXCEPT !.key = m.key, !.hasPub = 1,
                                    !.hasPriv = 1],
                makeCalls |-> 1, freeKey |-> 0, frees |-> 0])

\* wp_ecx_gen.  running and why are the environment of its wp_ecx_new.
\* Returns the object or NULL, the calls of makeKey, and the allocations,
\* freeKey calls and releases of the whole call.
wp_ecx_gen(ctx, running, why, v, makeFails) ==
    Let(wp_ecx_new(ctx.data, running, why),
        LAMBDA n :
          IF n.ecx # NULL
             /\ BitAnd(ctx.selection, OSSL_KEYMGMT_SELECT_KEYPAIR) # 0
          THEN Let(gen_make(ctx, n.ecx, v, makeFails),
                   LAMBDA g : [ecx |-> g.ecx, makeCalls |-> g.makeCalls,
                               allocs |-> n.allocs,
                               freeKey |-> n.freeKey + g.freeKey,
                               frees |-> n.frees + g.frees])
          ELSE [ecx |-> n.ecx, makeCalls |-> 0, allocs |-> n.allocs,
                freeKey |-> n.freeKey, frees |-> n.frees])

(***************************************************************************)
(* Validation.  fault is the primitive that the environment makes fail:    *)
(* "export" (exportPub), "checkPub", "checkKey", or "none".                *)
(***************************************************************************)
ValidateFaults == {"none", "export", "checkPub", "checkKey"}

\* OSSL_KEYMGMT_VALIDATE_FULL_CHECK and OSSL_KEYMGMT_VALIDATE_QUICK_CHECK.
CheckTypes == {0, 1}

\* checkPub of wolfSSL on the exported bytes: 0 or a negative value.
checkPub(d, key, len, fails) == IF fails THEN -1 ELSE 0

\* checkKey of wolfSSL: the stored public value, when there is one, has to
\* be the one that belongs to the private value.
checkKey(d, key, fails) ==
    IF fails THEN -1
    ELSE IF key.pub # Zeros(d.len) /\ key.pub # MakePublic(key.priv) THEN -1
    ELSE 0

wp_ecx_validate_pub_key(ecx, fault) ==
    IF ecx.hasPub = 0
    THEN [ok |-> 0, exportCalls |-> 0, checkPubCalls |-> 0]
    ELSE Let(exportPub(ecx.data, ecx.key, fault = "export"),
             LAMBDA e :
               IF e.rc # 0
               THEN [ok |-> 0, exportCalls |-> 1, checkPubCalls |-> 0]
               ELSE [ok |-> IF checkPub(ecx.data, e.out, Len(e.out),
                                        fault = "checkPub") # 0
                            THEN 0 ELSE 1,
                     exportCalls |-> 1, checkPubCalls |-> 1])

\* Lines 745-748 without the test of hasPriv.
x_validate_private_Unchecked(ecx, selection, p) ==
    [ok |-> 1, exportCalls |-> p.exportCalls,
     checkPubCalls |-> p.checkPubCalls, checkKeyCalls |-> 0]

\* Lines 745-748, entered with ok set; p is what the public part did.
x_validate_private(ecx, selection, p) ==
    [ok |-> IF BitAnd(selection, OSSL_KEYMGMT_SELECT_PRIVATE_KEY) # 0
            THEN BitAnd(1, ecx.hasPriv) ELSE 1,
     exportCalls |-> p.exportCalls, checkPubCalls |-> p.checkPubCalls,
     checkKeyCalls |-> 0]

wp_ecx_x_validate(ecx, selection, checkType, fault) ==
    IF BitAnd(selection, OSSL_KEYMGMT_SELECT_PUBLIC_KEY) = 0
    THEN x_validate_private(ecx, selection,
                            [exportCalls |-> 0, checkPubCalls |-> 0])
    ELSE Let(wp_ecx_validate_pub_key(ecx, fault),
             LAMBDA p :
               IF p.ok = 0
               THEN [ok |-> 0, exportCalls |-> p.exportCalls,
                     checkPubCalls |-> p.checkPubCalls, checkKeyCalls |-> 0]
               ELSE x_validate_private(ecx, selection, p))

\* wp_ecx_ed_validate that leaves out checkKey on a quick check.
wp_ecx_ed_validate_QuickSkips(ecx, selection, checkType, fault) ==
    IF BitAnd(selection, OSSL_KEYMGMT_SELECT_PUBLIC_KEY) # 0
       /\ ecx.hasPub = 0
    THEN [ok |-> 0, exportCalls |-> 0, checkPubCalls |-> 0,
          checkKeyCalls |-> 0]
    ELSE IF BitAnd(selection, OSSL_KEYMGMT_SELECT_PRIVATE_KEY) # 0
            /\ ecx.hasPriv = 0
    THEN [ok |-> 0, exportCalls |-> 0, checkPubCalls |-> 0,
          checkKeyCalls |-> 0]
    ELSE IF BitAnd(selection, OSSL_KEYMGMT_SELECT_KEYPAIR)
               = OSSL_KEYMGMT_SELECT_KEYPAIR
            /\ checkType = 0
    THEN [ok |-> IF checkKey(ecx.data, ecx.key, fault = "checkKey") # 0
                 THEN 0 ELSE 1,
          exportCalls |-> 0, checkPubCalls |-> 0, checkKeyCalls |-> 1]
    ELSE [ok |-> 1, exportCalls |-> 0, checkPubCalls |-> 0,
          checkKeyCalls |-> 0]

wp_ecx_ed_validate(ecx, selection, checkType, fault) ==
    IF BitAnd(selection, OSSL_KEYMGMT_SELECT_PUBLIC_KEY) # 0
       /\ ecx.hasPub = 0
    THEN [ok |-> 0, exportCalls |-> 0, checkPubCalls |-> 0,
          checkKeyCalls |-> 0]
    ELSE IF BitAnd(selection, OSSL_KEYMGMT_SELECT_PRIVATE_KEY) # 0
            /\ ecx.hasPriv = 0
    THEN [ok |-> 0, exportCalls |-> 0, checkPubCalls |-> 0,
          checkKeyCalls |-> 0]
    ELSE IF BitAnd(selection, OSSL_KEYMGMT_SELECT_KEYPAIR)
               = OSSL_KEYMGMT_SELECT_KEYPAIR
    THEN [ok |-> IF checkKey(ecx.data, ecx.key, fault = "checkKey") # 0
                 THEN 0 ELSE 1,
          exportCalls |-> 0, checkPubCalls |-> 0, checkKeyCalls |-> 1]
    ELSE [ok |-> 1, exportCalls |-> 0, checkPubCalls |-> 0,
          checkKeyCalls |-> 0]

\* The families whose dispatch table has wp_ecx_x_validate.
IsX(data) == data.keyType \in {WP_KEY_TYPE_X25519, WP_KEY_TYPE_X448}

(***************************************************************************)
(* Decoding.  The eight decoders differ in the family, the format and the  *)
(* function that decodes DER data into the wolfSSL key.                    *)
(***************************************************************************)
WP_ENC_FORMAT_SPKI == "SPKI"
WP_ENC_FORMAT_PKI == "PKI"

Decoders ==
    { [keyType |-> WP_KEY_TYPE_X25519, format |-> WP_ENC_FORMAT_SPKI,
       decode |-> "wp_x25519_pub_deocde"],
      [keyType |-> WP_KEY_TYPE_X25519, format |-> WP_ENC_FORMAT_PKI,
       decode |-> "wp_x25519_priv_deocde"],
      [keyType |-> WP_KEY_TYPE_ED25519, format |-> WP_ENC_FORMAT_SPKI,
       decode |-> "wc_Ed25519PublicKeyDecode"],
      [keyType |-> WP_KEY_TYPE_ED25519, format |-> WP_ENC_FORMAT_PKI,
       decode |-> "wc_Ed25519PrivateKeyDecode"],
      [keyType |-> WP_KEY_TYPE_X448, format |-> WP_ENC_FORMAT_SPKI,
       decode |-> "wp_x448_pub_deocde"],
      [keyType |-> WP_KEY_TYPE_X448, format |-> WP_ENC_FORMAT_PKI,
       decode |-> "wp_x448_priv_deocde"],
      [keyType |-> WP_KEY_TYPE_ED448, format |-> WP_ENC_FORMAT_SPKI,
       decode |-> "wc_Ed448PublicKeyDecode"],
      [keyType |-> WP_KEY_TYPE_ED448, format |-> WP_ENC_FORMAT_PKI,
       decode |-> "wc_Ed448PrivateKeyDecode"] }

wp_ecx_enc_dec_new(keyType, format, decode, running, allocOk) ==
    IF running /\ allocOk
    THEN [decode |-> decode, keyType |-> keyType, format |-> format,
          encoder |-> 0, selection |-> 0]
    ELSE NULL

\* The descriptor that wp_x25519_new, wp_ed25519_new, wp_x448_new and
\* wp_ed448_new give to wp_ecx_new.
DataOfType(keyType) == CHOOSE d \in EcxData : d.keyType = keyType

\* The type tags with the tags of the two 448-bit families exchanged.
dataTypeOf_Exchanged448(keyType) ==
    IF keyType = WP_KEY_TYPE_X25519 THEN [str |-> "X25519"]
    ELSE IF keyType = WP_KEY_TYPE_ED25519 THEN [str |-> "ED25519"]
    ELSE IF keyType = WP_KEY_TYPE_X448 THEN [str |-> "ED448"]
    ELSE IF keyType = WP_KEY_TYPE_ED448 THEN [str |-> "X448"]
    ELSE NULL

dataTypeOf(keyType) ==
    IF keyType = WP_KEY_TYPE_X25519 THEN [str |-> "X25519"]
    ELSE IF keyType = WP_KEY_TYPE_ED25519 THEN [str |-> "ED25519"]
    ELSE IF keyType = WP_KEY_TYPE_X448 THEN [str |-> "X448"]
    ELSE IF keyType = WP_KEY_TYPE_ED448 THEN [str |-> "ED448"]
    ELSE NULL

\* What the environment makes of the DER data: "none" is a well-formed
\* container with good key material, "container" one that the wolfSSL decode
\* function rejects, "material" one whose last bytes the little-endian
\* import rejects.
DecodeFaults == {"none", "container", "material"}

\* wc_*PublicKeyDecode and wc_*PrivateKeyDecode: v is the value in the data.
wc_KeyDecode(ctx, key, v, fault) ==
    IF fault = "container" THEN [rc |-> -1, key |-> key]
    ELSE [rc |-> 0,
          key |-> IF ctx.format = WP_ENC_FORMAT_SPKI
                  THEN [key EXCEPT !.pub = KeyBytes(Len(key.pub), v)]
                  ELSE [key EXCEPT !.priv = KeyBytes(Len(key.priv), v)]]

\* wp_x25519_pub_deocde, wp_x25519_priv_deocde, wp_x448_pub_deocde and
\* wp_x448_priv_deocde: decode, then import the last bytes little-endian.
wp_x_deocde(ctx, key, v, fault) ==
    Let(wc_KeyDecode(ctx, key, v, fault),
        LAMBDA d : IF d.rc # 0 THEN d
                   ELSE IF fault = "material" THEN [rc |-> -1, key |-> d.key]
                   ELSE d)

\* ctx->decode
decode(ctx, key, v, fault) ==
    IF ctx.decode \in {"wp_x25519_pub_deocde", "wp_x25519_priv_deocde",
                       "wp_x448_pub_deocde", "wp_x448_priv_deocde"}
    THEN wp_x_deocde(ctx, key, v, fault)
    ELSE wc_KeyDecode(ctx, key, v, fault)

\* The callback is given the address of the parameter ecx of this function;
\* a callback that takes the key calls wp_ecx_load on that address.
wp_ecx_dec_send_params(ecx, dataType, sinkTakes, sinkRet) ==
    [ok |-> IF sinkRet = 0 THEN 0 ELSE 1,
     calls |-> 1,
     params |-> [type |-> "OSSL_OBJECT_PKEY", dataType |-> dataType,
                 reference |-> ecx],
     taken |-> IF sinkTakes THEN wp_ecx_load(ecx).ret ELSE NULL]

\* Lines 1802-1808 that keep the object when the data was not decoded.
dec_release_KeepUndecoded(ecx, ok, decoded) ==
    IF ok = 1 THEN [ok |-> 1, freeKey |-> 0, frees |-> 0]
    ELSE IF decoded = 0 THEN [ok |-> 1, freeKey |-> 0, frees |-> 0]
    ELSE Let(free(ecx),
             LAMBDA f : [ok |-> 0, freeKey |-> f.freeKey,
                         frees |-> f.frees])

\* Lines 1802-1808: the object of this call is freed on failure, and data
\* that was not decoded is no failure.
dec_release(ecx, ok, decoded) ==
    IF ok = 1 THEN [ok |-> 1, freeKey |-> 0, frees |-> 0]
    ELSE Let(free(ecx),
             LAMBDA f : [ok |-> IF decoded = 0 THEN 1 ELSE 0,
                         freeKey |-> f.freeKey, frees |-> f.frees])

\* Lines 1788-1808.  n is what wp_ecx_new did, d what ctx->decode did.
dec_finish(ctx, n, ecx, ok, decoded, reads, d, sinkTakes, sinkRet) ==
    Let(IF ok = 1
        THEN wp_ecx_dec_send_params(
                 IF ctx.format = WP_ENC_FORMAT_SPKI
                 THEN [ecx EXCEPT !.hasPub = 1]
                 ELSE IF ctx.format = WP_ENC_FORMAT_PKI
                 THEN [ecx EXCEPT !.hasPub = 1, !.hasPriv = 1]
                 ELSE ecx,
                 dataTypeOf(ctx.keyType), sinkTakes, sinkRet)
        ELSE [ok |-> 0, calls |-> 0, params |-> NULL, taken |-> NULL],
        LAMBDA s :
          Let(dec_release(ecx, s.ok, decoded),
              LAMBDA f :
                [ok |-> f.ok, decoded |-> decoded,
                 allocs |-> n.allocs,
                 freeKey |-> n.freeKey + f.freeKey,
                 frees |-> n.frees + f.frees,
                 reads |-> reads, clearFrees |-> 1,
                 decodeCalls |-> d.calls, decodeRc |-> d.rc,
                 sinkCalls |-> s.calls, params |-> s.params,
                 taken |-> s.taken]))

\* Lines 1779-1787.  readOk is the result of wp_read_der_bio.
dec_read(ctx, n, readOk, v, fault, sinkTakes, sinkRet) ==
    IF n.ecx = NULL
    THEN dec_finish(ctx, n, NULL, 0, 1, 0, [calls |-> 0, rc |-> 0],
                    sinkTakes, sinkRet)
    ELSE IF ~readOk
    THEN dec_finish(ctx, n, n.ecx, 0, 1, 1, [calls |-> 0, rc |-> 0],
                    sinkTakes, sinkRet)
    ELSE Let(decode(ctx, n.ecx.key, v, fault),
             LAMBDA d :
               IF d.rc # 0
               THEN dec_finish(ctx, n, n.ecx, 0, 0, 1,
                               [calls |-> 1, rc |-> d.rc], sinkTakes, sinkRet)
               ELSE dec_finish(ctx, n, [n.ecx EXCEPT !.key = d.key], 1, 1, 1,
                               [calls |-> 1, rc |-> d.rc], sinkTakes,
                               sinkRet))

\* e is the environment of the call: running and why for wp_ecx_new, readOk
\* for wp_read_der_bio, v and fault for the data, sinkTakes and sinkRet for
\* the callback.
wp_ecx_dec_decode(ctx, selection, e) ==
    IF dataTypeOf(ctx.keyType) = NULL
    THEN dec_read(ctx, [ecx |-> NULL, allocs |-> 0, freeKey |-> 0,
                        frees |-> 0],
                  e.readOk, e.v, e.fault, e.sinkTakes, e.sinkRet)
    ELSE Let(wp_ecx_new(DataOfType(ctx.keyType), e.running, e.why),
             LAMBDA n : dec_read(ctx, n, e.readOk, e.v, e.fault, e.sinkTakes,
                                 e.sinkRet))

(***************************************************************************)
(* wp_ecx_set_params; entry is the encoded-pub-key entry of params.        *)
(***************************************************************************)
\* wp_ecx_set_params taking the private key for stale once the public key
\* is replaced.
wp_ecx_set_params_DropsPriv(ecx, entry) ==
    Let(wp_params_get_octet_string_ptr(entry),
        LAMBDA g :
          IF g.ok = 0 THEN [ok |-> 0, ecx |-> ecx, pubCalls |-> 0]
          ELSE IF g.data = NULL THEN [ok |-> 1, ecx |-> ecx, pubCalls |-> 0]
          ELSE Let(importPub(ecx.data, g.data, ecx.key),
                   LAMBDA i :
                     IF i.rc # 0
                     THEN [ok |-> 0, ecx |-> [ecx EXCEPT !.key = i.key],
                           pubCalls |-> 1]
                     ELSE [ok |-> 1,
                           ecx |-> [ecx EXCEPT !.key = i.key, !.hasPub = 1,
                                               !.hasPriv = 0],
                           pubCalls |-> 1]))

wp_ecx_set_params(ecx, entry) ==
    Let(wp_params_get_octet_string_ptr(entry),
        LAMBDA g :
          IF g.ok = 0 THEN [ok |-> 0, ecx |-> ecx, pubCalls |-> 0]
          ELSE IF g.data = NULL THEN [ok |-> 1, ecx |-> ecx, pubCalls |-> 0]
          ELSE Let(importPub(ecx.data, g.data, ecx.key),
                   LAMBDA i :
                     IF i.rc # 0
                     THEN [ok |-> 0, ecx |-> [ecx EXCEPT !.key = i.key],
                           pubCalls |-> 1]
                     ELSE [ok |-> 1,
                           ecx |-> [ecx EXCEPT !.key = i.key, !.hasPub = 1],
                           pubCalls |-> 1]))

(***************************************************************************)
(* wp_ecx_get_params.  The caller's list has an entry or none for each of  *)
(* the six names.  An integer entry is [kind |-> "int", value |-> v]; an   *)
(* octet entry has the caller's buffer, data, or NULL, the size of that    *)
(* buffer, data_size, and return_size.  A buffer is the bytes written into *)
(* it from its start, which may be more than data_size.                    *)
(***************************************************************************)
\* The widths of size_t and of word32, scaled to the integers of the model
\* checker; what matters is that word32 is the narrower.
SizeBits == 30
WordBits == 20

\* OSSL_PARAM_UNMODIFIED, the return_size that OpenSSL gives a new entry.
OSSL_PARAM_UNMODIFIED == 2 ^ SizeBits - 1

\* The conversion of line 448 and of line 481.
Word32(n) == n % (2 ^ WordBits)

IntEntry == [kind |-> "int", value |-> 0]

OctetEntry(data, data_size, return_size) ==
    [kind |-> "octet", data |-> data, data_size |-> data_size,
     return_size |-> return_size]

Buffer == [bytes |-> <<>>]

\* OSSL_PARAM_locate and OSSL_PARAM_set_int: nothing to do for a name that
\* is not in the list, failure for an entry that is no integer.
set_int(st, name, v) ==
    IF st.ok = 0 \/ st.params[name] = Absent THEN st
    ELSE IF st.params[name].kind # "int" THEN [st EXCEPT !.ok = 0]
    ELSE [st EXCEPT !.params[name].value = v]

\* wp_ecx_get_security_bits with > for the first >=.
wp_ecx_get_security_bits_Above448(data) ==
    IF data.bits > 448 THEN 192
    ELSE IF data.bits >= 255 THEN 128
    ELSE 0

wp_ecx_get_security_bits(data) ==
    IF data.bits >= 448 THEN 192
    ELSE IF data.bits >= 255 THEN 128
    ELSE 0

\* An export primitive given a buffer of cap bytes; e is what it does when
\* the buffer is large enough.  wolfSSL writes nothing and reports the length
\* it needs when cap is too small.
exportInto(e, cap) ==
    IF e.rc # 0 THEN [rc |-> e.rc, outLen |-> cap, out |-> <<>>]
    ELSE IF cap < Len(e.out)
    THEN [rc |-> -1, outLen |-> Len(e.out), out |-> <<>>]
    ELSE [rc |-> 0, outLen |-> Len(e.out), out |-> e.out]

\* Lines 447-461 without the test of rc.
get_params_octet_IgnoreRc(st, name, len, e, part) ==
    IF st.ok = 0 \/ st.params[name] = Absent THEN st
    ELSE IF st.params[name].data = NULL
    THEN [st EXCEPT !.params[name].return_size = len]
    ELSE Let(exportInto(e, Word32(st.params[name].return_size)),
             LAMBDA x :
               [ok |-> 1,
                params |-> [st.params EXCEPT
                               ![name].return_size = x.outLen,
                               ![name].data = [bytes |-> x.out]],
                calls |-> Append(st.calls,
                                 [name |-> name, part |-> part, rc |-> x.rc,
                                  cap |-> Word32(st.params[name].return_size),
                                  outLen |-> x.outLen])])

\* Lines 447-461 and 480-494 on the entry of the name: e is the result of
\* the export primitive on a buffer that is large enough, part its name.
get_params_octet(st, name, len, e, part) ==
    IF st.ok = 0 \/ st.params[name] = Absent THEN st
    ELSE IF st.params[name].data = NULL
    THEN [st EXCEPT !.params[name].return_size = len]
    ELSE Let(exportInto(e, Word32(st.params[name].return_size)),
             LAMBDA x :
               [ok |-> IF x.rc # 0 THEN 0 ELSE 1,
                params |-> [st.params EXCEPT
                               ![name].return_size = x.outLen,
                               ![name].data = [bytes |-> x.out]],
                calls |-> Append(st.calls,
                                 [name |-> name, part |-> part, rc |-> x.rc,
                                  cap |-> Word32(st.params[name].return_size),
                                  outLen |-> x.outLen])])

wp_ecx_get_params_enc_pub_key(ecx, st, key, fault) ==
    get_params_octet(st, key, ecx.data.len,
                     exportPub(ecx.data, ecx.key, fault = "exportPub"),
                     "exportPub")

wp_ecx_get_params_priv_key(ecx, st, fault) ==
    get_params_octet(st, OSSL_PKEY_PARAM_PRIV_KEY, ecx.data.len,
                     exportPriv(ecx.data, ecx.key, fault = "exportPriv"),
                     "exportPriv")

\* The last three steps of wp_ecx_get_params, lines 529-539.
get_params_keys(ecx, st, fault) ==
    Let(wp_ecx_get_params_enc_pub_key(ecx, st,
            OSSL_PKEY_PARAM_ENCODED_PUBLIC_KEY, fault),
        LAMBDA s4 :
          Let(wp_ecx_get_params_enc_pub_key(ecx, s4, OSSL_PKEY_PARAM_PUB_KEY,
                                            fault),
              LAMBDA s5 : wp_ecx_get_params_priv_key(ecx, s5, fault)))

wp_ecx_get_params(ecx, params, fault) ==
    Let(set_int([ok |-> 1, params |-> params, calls |-> <<>>],
                OSSL_PKEY_PARAM_MAX_SIZE, ecx.data.len),
        LAMBDA s1 :
          Let(set_int(s1, OSSL_PKEY_PARAM_BITS, ecx.data.bits),
              LAMBDA s2 :
                Let(set_int(s2, OSSL_PKEY_PARAM_SECURITY_BITS,
                            wp_ecx_get_security_bits(ecx.data)),
                    LAMBDA s3 : get_params_keys(ecx, s3, fault))))

(***************************************************************************)
(*                  Key management: the entry points                       *)
(* Each action is one call by the application, made when the call before   *)
(* it has returned; Return is the application taking the result.  running  *)
(* is what wolfssl_prov_is_running() answers during the call.              *)
(***************************************************************************)
KeyInit ==
    /\ KeyIdle
    /\ RefInit
    /\ planN = 0

\* The object behind pointer k; pointer 0 is a null pointer.
Deref(k) == IF k = 0 THEN NULL ELSE keys[k]

\* The length of the keys of the family of the object behind pointer k.
LenOf(k) == IF Deref(k) = NULL THEN CURVE25519_KEYSIZE ELSE keys[k].data.len

Return ==
    /\ res.op # "none"
    /\ res' = [op |-> "none"]
    /\ UNCHANGED <<keys, gen, dec, refVars>>

\* wp_x25519_new, wp_x448_new, wp_ed25519_new, wp_ed448_new
KeyNew(k, data, running, why) ==
    /\ res.op = "none"
    /\ keys[k] = NULL
    /\ \E r \in {wp_ecx_new(data, running, why)} :
           /\ keys' = [keys EXCEPT ![k] = r.ecx]
           /\ res' = [op |-> "new", k |-> k, running |-> running,
                      why |-> why, data |-> data, allocs |-> r.allocs,
                      freeKey |-> r.freeKey, frees |-> r.frees]
    /\ UNCHANGED <<gen, dec, refVars>>

KeyHas(k, selection, running) ==
    /\ res.op = "none"
    /\ \E r \in {wp_ecx_has(Deref(k), selection, running)} :
           res' = [op |-> "has", k |-> k, selection |-> selection,
                   running |-> running, ok |-> r.ok,
                   derefNull |-> r.derefNull]
    /\ UNCHANGED <<keys, gen, dec, refVars>>

KeyImport(k, selection, privE, pubE, running) ==
    /\ res.op = "none"
    /\ \E r \in {wp_ecx_import(Deref(k), selection, privE, pubE, running)} :
           /\ keys' = IF k = 0 THEN keys ELSE [keys EXCEPT ![k] = r.ecx]
           /\ res' = [op |-> "import", k |-> k, selection |-> selection,
                      running |-> running, ok |-> r.ok,
                      privCalls |-> r.privCalls, privRc |-> r.privRc,
                      pubCalls |-> r.pubCalls, pubRc |-> r.pubRc,
                      privKind |-> privE.kind, pubKind |-> pubE.kind,
                      hadPriv |-> IF k = 0 \/ keys[k] = NULL THEN 0
                                  ELSE keys[k].hasPriv]
    /\ UNCHANGED <<gen, dec, refVars>>

\* wp_ecx_export on an object; sinkRet is what the sink answers, running the
\* state of the provider at the call, which the function does not ask for.
KeyExport(k, selection, allocOk, fault, sinkRet) ==
    /\ res.op = "none"
    /\ keys[k] # NULL
    /\ \E r \in {wp_ecx_export(keys[k], selection, allocOk, fault, sinkRet)},
          running \in BOOLEAN :
           res' = [op |-> "export", k |-> k, selection |-> selection,
                   running |-> running,
                   allocOk |-> allocOk, fault |-> fault,
                   sinkRet |-> sinkRet, ok |-> r.ok,
                   sinkCalls |-> r.sinkCalls, params |-> r.params,
                   allocs |-> r.allocs, frees |-> r.frees,
                   written |-> r.written, released |-> r.released,
                   pubRc |-> r.pubRc, privCalls |-> r.privCalls,
                   privRc |-> r.privRc]
    /\ UNCHANGED <<keys, gen, dec, refVars>>

\* The export primitives that fail on object k under fault.
FailsOn(k, fault) == IF fault.k = k THEN {fault.part} ELSE {}

\* wp_ecx_match on two objects.  fault names an object and the export
\* primitive that fails on it; object 0 is none.
KeyMatch(a, b, selection, running, fault) ==
    /\ res.op = "none"
    /\ keys[a] # NULL
    /\ keys[b] # NULL
    /\ \E r \in {wp_ecx_match(keys[a], keys[b], selection, running,
                              FailsOn(a, fault), FailsOn(b, fault))} :
           res' = [op |-> "match", a |-> a, b |-> b,
                   selection |-> selection, running |-> running,
                   fault |-> fault, ok |-> r.ok,
                   privCalls |-> r.privCalls, pubCalls |-> r.pubCalls]
    /\ UNCHANGED <<keys, gen, dec, refVars>>

\* wp_ecx_up_ref on an object, by the one caller there is.
KeyUpRef(k, lockOk) ==
    /\ res.op = "none"
    /\ keys[k] # NULL
    /\ keys[k].refCnt < MaxRefs
    /\ \E r \in {up_ref(keys[k], lockOk)} :
           /\ keys' = [keys EXCEPT ![k] = r.ecx]
           /\ res' = [op |-> "up_ref", k |-> k, ok |-> r.ok,
                      lockOk |-> lockOk, before |-> keys[k],
                      unlocks |-> r.unlocks]
    /\ UNCHANGED <<gen, dec, refVars>>

\* wp_ecx_free on pointer k.
KeyFree(k) ==
    /\ res.op = "none"
    /\ \E r \in {free(keys[k])} :
           /\ keys' = [keys EXCEPT ![k] = r.ecx]
           /\ res' = [op |-> "free", k |-> k, before |-> keys,
                      freeKey |-> r.freeKey, frees |-> r.frees]
    /\ UNCHANGED <<gen, dec, refVars>>

\* wp_ecx_dup of the object behind src; the result goes to pointer dst.
KeyDup(src, dst, selection, running, why) ==
    /\ res.op = "none"
    /\ src # dst
    /\ keys[src] # NULL
    /\ keys[dst] = NULL
    /\ keys' = [keys EXCEPT ![dst] = wp_ecx_dup(keys[src], selection,
                                                running, why)]
    /\ res' = [op |-> "dup", src |-> src, dst |-> dst,
               selection |-> selection, running |-> running, why |-> why,
               before |-> keys[src]]
    /\ UNCHANGED <<gen, dec, refVars>>

\* wp_ecx_load from the slot pointer k; the result goes to pointer to.
KeyLoad(k, to) ==
    /\ res.op = "none"
    /\ k # to
    /\ keys[to] = NULL
    /\ \E r \in {wp_ecx_load(keys[k])} :
           /\ keys' = [keys EXCEPT ![k] = r.slot, ![to] = r.ret]
           /\ res' = [op |-> "load", slot |-> k, to |-> to,
                      before |-> keys[k], ret |-> r.ret]
    /\ UNCHANGED <<gen, dec, refVars>>

\* wp_x25519_gen_init, wp_x448_gen_init, wp_ed25519_gen_init and
\* wp_ed448_gen_init; entry is the group-name entry of params.
GenInit(data, selection, entry, running, why) ==
    /\ res.op = "none"
    /\ gen.ctx = NULL
    /\ gen' = wp_ecx_gen_init(selection, entry, data, NameOf(data), running,
                              why)
    /\ res' = [op |-> "gen_init", selection |-> selection, entry |-> entry,
               expected |-> NameOf(data), running |-> running, why |-> why]
    /\ UNCHANGED <<keys, dec, refVars>>

\* wp_ecx_gen_set_params on the context.
GenSetParams(entry) ==
    /\ res.op = "none"
    /\ gen.ctx # NULL
    /\ res' = [op |-> "gen_set_params", entry |-> entry,
               expected |-> gen.ctx.name,
               ok |-> wp_ecx_gen_set_params(gen.ctx, entry)]
    /\ UNCHANGED <<keys, gen, dec, refVars>>

\* wp_ecx_gen with the context; the result goes to pointer k.
Gen(k, running, why, v, makeFails) ==
    /\ res.op = "none"
    /\ gen.ctx # NULL
    /\ keys[k] = NULL
    /\ \E r \in {wp_ecx_gen(gen.ctx, running, why, v, makeFails)} :
           /\ keys' = [keys EXCEPT ![k] = r.ecx]
           /\ res' = [op |-> "gen", k |-> k, running |-> running,
                      why |-> why, makeFails |-> makeFails,
                      makeCalls |-> r.makeCalls, allocs |-> r.allocs,
                      freeKey |-> r.freeKey, frees |-> r.frees]
    /\ UNCHANGED <<gen, dec, refVars>>

\* wp_ecx_gen_cleanup on the context.
GenCleanup ==
    /\ res.op = "none"
    /\ gen.ctx # NULL
    /\ gen' = wp_ecx_gen_cleanup(gen)
    /\ res' = [op |-> "gen_cleanup"]
    /\ UNCHANGED <<keys, dec, refVars>>

\* OSSL_FUNC_KEYMGMT_VALIDATE of the family of the object: wp_ecx_x_validate
\* or wp_ecx_ed_validate.  running is the state of the provider at the call,
\* which the function does not ask for.
KeyValidate(k, selection, checkType, fault) ==
    /\ res.op = "none"
    /\ keys[k] # NULL
    /\ \E r \in {IF IsX(keys[k].data)
                 THEN wp_ecx_x_validate(keys[k], selection, checkType, fault)
                 ELSE wp_ecx_ed_validate(keys[k], selection, checkType,
                                         fault)},
          running \in BOOLEAN :
           res' = [op |-> "validate", k |-> k, selection |-> selection,
                   checkType |-> checkType, fault |-> fault,
                   running |-> running,
                   before |-> keys[k], ok |-> r.ok,
                   exportCalls |-> r.exportCalls,
                   checkPubCalls |-> r.checkPubCalls,
                   checkKeyCalls |-> r.checkKeyCalls]
    /\ UNCHANGED <<keys, gen, dec, refVars>>

\* wp_x25519_spki_dec_new and the seven other functions of
\* OSSL_FUNC_DECODER_NEWCTX.
DecNew(d, running, allocOk) ==
    /\ res.op = "none"
    /\ dec = NULL
    /\ dec' = wp_ecx_enc_dec_new(d.keyType, d.format, d.decode, running,
                                 allocOk)
    /\ res' = [op |-> "dec_new", decoder |-> d, running |-> running,
               ret |-> dec']
    /\ UNCHANGED <<keys, gen, refVars>>

\* wp_ecx_dec_free
DecFree ==
    /\ res.op = "none"
    /\ dec # NULL
    /\ dec' = NULL
    /\ res' = [op |-> "dec_free"]
    /\ UNCHANGED <<keys, gen, refVars>>

\* wp_ecx_dec_decode; a callback that takes the key puts it in pointer k.
Decode(k, selection, running, why, readOk, v, fault, sinkTakes, sinkRet) ==
    /\ res.op = "none"
    /\ dec # NULL
    /\ keys[k] = NULL
    /\ \E r \in {wp_ecx_dec_decode(dec, selection,
                     [running |-> running, why |-> why, readOk |-> readOk,
                      v |-> v, fault |-> fault, sinkTakes |-> sinkTakes,
                      sinkRet |-> sinkRet])} :
           /\ keys' = [keys EXCEPT ![k] = r.taken]
           /\ res' = [op |-> "decode", k |-> k, fault |-> fault,
                      readOk |-> readOk, why |-> why, running |-> running,
                      sinkTakes |-> sinkTakes, sinkRet |-> sinkRet,
                      ok |-> r.ok, decoded |-> r.decoded,
                      allocs |-> r.allocs, freeKey |-> r.freeKey,
                      frees |-> r.frees, reads |-> r.reads,
                      clearFrees |-> r.clearFrees,
                      decodeCalls |-> r.decodeCalls,
                      decodeRc |-> r.decodeRc, sinkCalls |-> r.sinkCalls,
                      params |-> r.params]
    /\ dec' = [dec EXCEPT !.selection = selection]
    /\ UNCHANGED <<gen, refVars>>

\* OSSL_FUNC_KEYMGMT_SET_PARAMS; running is the state of the provider at
\* the call, which the function does not ask for.
KeySetParams(k, entry) ==
    /\ res.op = "none"
    /\ keys[k] # NULL
    /\ \E r \in {wp_ecx_set_params(keys[k], entry)}, running \in BOOLEAN :
           /\ keys' = [keys EXCEPT ![k] = r.ecx]
           /\ res' = [op |-> "set_params", k |-> k, entry |-> entry,
                      running |-> running,
                      before |-> keys[k], ok |-> r.ok,
                      pubCalls |-> r.pubCalls]
    /\ UNCHANGED <<gen, dec, refVars>>

\* OSSL_FUNC_KEYMGMT_GET_PARAMS; running is the state of the provider at
\* the call, which the function does not ask for.
KeyGetParams(k, params, fault) ==
    /\ res.op = "none"
    /\ keys[k] # NULL
    /\ \E r \in {wp_ecx_get_params(keys[k], params, fault)},
          running \in BOOLEAN :
           res' = [op |-> "get_params", k |-> k, request |-> params,
                   running |-> running,
                   fault |-> fault, ok |-> r.ok, params |-> r.params,
                   calls |-> r.calls]
    /\ UNCHANGED <<keys, gen, dec, refVars>>

\* wp_ecx_get_security_bits on a descriptor of the given bit size.
SecurityBits(bits) ==
    /\ res.op = "none"
    /\ res' = [op |-> "security_bits", bits |-> bits,
               ret |-> wp_ecx_get_security_bits([bits |-> bits])]
    /\ UNCHANGED <<keys, gen, dec, refVars>>

\* The ways a call of wp_ecx_new can go.
NewOutcomes == {"ok", "alloc", "init", "mutex"}

(***************************************************************************)
(* Spec: the entry points that work on one key, called on one key pointer. *)
(***************************************************************************)
Next ==
    \/ Return
    \/ \E data \in EcxData, running \in BOOLEAN, why \in NewOutcomes :
          KeyNew(1, data, running, why)
    \/ \E k \in {0, 1}, selection \in Selections, running \in BOOLEAN :
          KeyHas(k, selection, running)
    \/ \E k \in {0, 1}, selection \in Selections, running \in BOOLEAN :
          \E privE, pubE \in ParamEntries(LenOf(k)) :
             KeyImport(k, selection, privE, pubE, running)
    \/ \E selection \in Selections, allocOk \in BOOLEAN,
          fault \in ExportFaults, sinkRet \in {0, 1} :
          KeyExport(1, selection, allocOk, fault, sinkRet)
    \/ \E selection \in Selections, checkType \in CheckTypes,
          fault \in ValidateFaults :
          KeyValidate(1, selection, checkType, fault)

Spec == KeyInit /\ [][Next]_vars

(***************************************************************************)
(* SpecPair: the entry points that work on two keys.  The keys are made    *)
(* and filled by calls that succeed or fail on their input alone, in a     *)
(* running provider; wp_ecx_match is called in every environment.          *)
(***************************************************************************)
\* The entries of an input list that holds key values of the right length.
KeyEntries(n) == {Absent} \cup {Octets(b) : b \in KeyValues(n)}

\* What the environment does to a call of wp_ecx_match: the provider is not
\* running, or it is and at most one export primitive fails on one object.
MatchEnv ==
    {[running |-> FALSE, fault |-> [k |-> 0, part |-> "none"]],
     [running |-> TRUE, fault |-> [k |-> 0, part |-> "none"]]}
        \cup {[running |-> TRUE, fault |-> [k |-> k, part |-> part]] :
                 k \in KeyIds, part \in {"priv", "pub"}}

PairNext ==
    \/ Return
    \/ \E k \in KeyIds, data \in EcxData : KeyNew(k, data, TRUE, "ok")
    \/ \E k \in KeyIds :
          \E privE, pubE \in KeyEntries(LenOf(k)) :
             KeyImport(k, OSSL_KEYMGMT_SELECT_KEYPAIR, privE, pubE, TRUE)
    \/ \E a, b \in KeyIds, selection \in Selections, env \in MatchEnv :
          KeyMatch(a, b, selection, env.running, env.fault)

SpecPair == KeyInit /\ [][PairNext]_vars

(***************************************************************************)
(* SpecOwn: the entry points that make, copy, hand over and release key    *)
(* objects, on two pointers, for one family of each kind.  Keys are filled *)
(* by imports that succeed or fail on their input alone.                   *)
(***************************************************************************)
OwnData == {x25519Data, ed448Data}

\* What the environment does to a wp_ecx_new: the provider is not running,
\* or it is and the call goes one of the ways of NewOutcomes.
NewEnv ==
    {[running |-> FALSE, why |-> "ok"]}
        \cup {[running |-> TRUE, why |-> why] : why \in NewOutcomes}

OwnNext ==
    \/ Return
    \/ \E k \in KeyIds, data \in OwnData : KeyNew(k, data, TRUE, "ok")
    \/ \E k \in KeyIds :
          \E privE, pubE \in KeyEntries(LenOf(k)) :
             KeyImport(k, OSSL_KEYMGMT_SELECT_KEYPAIR, privE, pubE, TRUE)
    \/ \E k \in KeyIds, lockOk \in BOOLEAN : KeyUpRef(k, lockOk)
    \/ \E k \in KeyIds : KeyFree(k)
    \/ \E src, dst \in KeyIds, selection \in Selections, env \in NewEnv :
          KeyDup(src, dst, selection, env.running, env.why)
    \/ \E k, to \in KeyIds : KeyLoad(k, to)

SpecOwn == KeyInit /\ [][OwnNext]_vars

(***************************************************************************)
(* SpecGen: the generation entry points on one context pointer, with the   *)
(* generated key in pointer 1 until it is released.                        *)
(***************************************************************************)
Names == {SN_X25519, SN_X448, SN_ED25519, SN_ED448}

\* The values of group-name: the names, every prefix of a name, the empty
\* string included, and every name with a character behind it.
NameValues ==
    Names
        \cup UNION {{Append(SubSeq(n, 1, i), NUL) : i \in 0..XSTRLEN(n)} :
                        n \in Names}
        \cup {SubSeq(n, 1, XSTRLEN(n)) \o <<120, NUL>> : n \in Names}

\* The group-name entries of a list: none, one of another type, a string.
GroupNameEntries ==
    {Absent, Octets(<<1>>)} \cup {Utf8(n) : n \in NameValues}

GenEnv ==
    {[running |-> FALSE, why |-> "ok"]}
        \cup {[running |-> TRUE, why |-> why] : why \in GenOutcomes}

GenNext ==
    \/ Return
    \/ \E data \in EcxData, selection \in Selections,
          entry \in GroupNameEntries, env \in GenEnv :
          GenInit(data, selection, entry, env.running, env.why)
    \/ \E entry \in GroupNameEntries : GenSetParams(entry)
    \/ \E env \in NewEnv, v \in 1..NumVals, makeFails \in BOOLEAN :
          Gen(1, env.running, env.why, v, makeFails)
    \/ GenCleanup
    \/ KeyFree(1)

SpecGen == KeyInit /\ [][GenNext]_vars

(***************************************************************************)
(* The decoders: a context is made, decodes any number of inputs and is    *)
(* freed; the callback's owner frees a key it took before the next decode. *)
(***************************************************************************)
DecEnv ==
    [running : BOOLEAN, why : NewOutcomes, readOk : BOOLEAN,
     fault : DecodeFaults, sinkTakes : BOOLEAN, sinkRet : {0, 1}]

DecNext ==
    \/ Return
    \/ \E d \in Decoders, running \in BOOLEAN, allocOk \in BOOLEAN :
          DecNew(d, running, allocOk)
    \/ DecFree
    \/ \E selection \in Selections, v \in 1..NumVals, e \in DecEnv :
          Decode(1, selection, e.running, e.why, e.readOk, v, e.fault,
                 e.sinkTakes, e.sinkRet)
    \/ KeyFree(1)

SpecDec == KeyInit /\ [][DecNext]_vars

(***************************************************************************)
(* SpecParams: the parameters of one key object, which is made, filled by  *)
(* imports and by set_params, and queried.                                 *)
(***************************************************************************)
\* The integer entries of a request: none, all three, or all three with one
\* that is no integer.
IntRequests ==
    {[n \in {OSSL_PKEY_PARAM_MAX_SIZE, OSSL_PKEY_PARAM_BITS,
             OSSL_PKEY_PARAM_SECURITY_BITS} |-> Absent]}
        \cup {[n \in {OSSL_PKEY_PARAM_MAX_SIZE, OSSL_PKEY_PARAM_BITS,
                      OSSL_PKEY_PARAM_SECURITY_BITS} |->
                  IF n = bad THEN WrongType ELSE IntEntry] :
                 bad \in {"none", OSSL_PKEY_PARAM_MAX_SIZE,
                          OSSL_PKEY_PARAM_BITS,
                          OSSL_PKEY_PARAM_SECURITY_BITS}}

\* The octet entries of a request for a key of n bytes: none, a query of the
\* length, a buffer of n bytes and one of n - 1 bytes in a new entry, and a
\* buffer of n bytes in an entry whose return_size is 0.
OctetRequests(n) ==
    {Absent,
     OctetEntry(NULL, 0, OSSL_PARAM_UNMODIFIED),
     OctetEntry(Buffer, n, OSSL_PARAM_UNMODIFIED),
     OctetEntry(Buffer, n - 1, OSSL_PARAM_UNMODIFIED),
     OctetEntry(Buffer, n, 0)}

GetRequests(n) ==
    {[name \in {OSSL_PKEY_PARAM_MAX_SIZE, OSSL_PKEY_PARAM_BITS,
                OSSL_PKEY_PARAM_SECURITY_BITS,
                OSSL_PKEY_PARAM_ENCODED_PUBLIC_KEY, OSSL_PKEY_PARAM_PUB_KEY,
                OSSL_PKEY_PARAM_PRIV_KEY} |->
         IF name \in DOMAIN ints THEN ints[name]
         ELSE IF name = OSSL_PKEY_PARAM_ENCODED_PUBLIC_KEY THEN encPub
         ELSE IF name = OSSL_PKEY_PARAM_PUB_KEY THEN pub
         ELSE priv] :
        ints \in IntRequests, encPub \in OctetRequests(n),
        pub \in OctetRequests(n), priv \in OctetRequests(n)}

\* Public keys of n bytes whose last byte has its top bit set.
TopBitEntries(n) == {Octets(KeyBytes(n, 128 + v)) : v \in 1..NumVals}

BitSizes == {0, 128, 254, 255, 256, 447, 448, 449, 521}

ParamsNext ==
    \/ Return
    \/ \E data \in EcxData : KeyNew(1, data, TRUE, "ok")
    \/ \E privE, pubE \in KeyEntries(LenOf(1)) :
          KeyImport(1, OSSL_KEYMGMT_SELECT_KEYPAIR, privE, pubE, TRUE)
    \/ \E entry \in ParamEntries(LenOf(1)) \cup TopBitEntries(LenOf(1)) :
          KeySetParams(1, entry)
    \/ /\ res.op = "none"
       /\ \E params \in GetRequests(LenOf(1)),
             fault \in {"none", "exportPub", "exportPriv"} :
             KeyGetParams(1, params, fault)
    \/ \E bits \in BitSizes : SecurityBits(bits)

SpecParams == KeyInit /\ [][ParamsNext]_vars

(***************************************************************************)
(* SpecLife: everything that makes a key object or writes its flags, on    *)
(* pointer 1: new, set_params, import, gen and decode; dup copies the      *)
(* object to pointer 2, and the copy is freed before the next of them.     *)
(***************************************************************************)
LifeDecoders == {d \in Decoders : DataOfType(d.keyType) \in OwnData}

LifeNext ==
    \/ Return
    \/ /\ keys[2] = NULL
       /\ \/ \E data \in OwnData : KeyNew(1, data, TRUE, "ok")
          \/ \E entry \in ParamEntries(LenOf(1)) : KeySetParams(1, entry)
          \/ \E privE, pubE \in ParamEntries(LenOf(1)) :
                KeyImport(1, OSSL_KEYMGMT_SELECT_KEYPAIR, privE, pubE, TRUE)
          \/ \E data \in OwnData :
                GenInit(data, OSSL_KEYMGMT_SELECT_KEYPAIR, Absent, TRUE, "ok")
          \/ GenCleanup
          \/ \E v \in 1..NumVals, makeFails \in BOOLEAN :
                Gen(1, TRUE, "ok", v, makeFails)
          \/ \E d \in LifeDecoders : DecNew(d, TRUE, TRUE)
          \/ DecFree
          \/ \E v \in 1..NumVals, fault \in DecodeFaults, sinkRet \in {0, 1} :
                Decode(1, 0, TRUE, "ok", TRUE, v, fault, TRUE, sinkRet)
    \/ \E selection \in {OSSL_KEYMGMT_SELECT_PUBLIC_KEY,
                         OSSL_KEYMGMT_SELECT_KEYPAIR} :
          KeyDup(1, 2, selection, TRUE, "ok")
    \/ \E k \in KeyIds : KeyFree(k)

SpecLife == KeyInit /\ [][LifeNext]_vars

(***************************************************************************)
(* C1.  For every N >= 1: after creating a key object, N-1 successful      *)
(* calls of wp_ecx_up_ref and then N calls of wp_ecx_free, the freeKey     *)
(* primitive and the deallocation have each run exactly once, and neither  *)
(* has run before the N-th wp_ecx_free.  While the scenario is under way   *)
(* nothing has been destroyed; once the N-th wp_ecx_free has returned,     *)
(* freeKey and OPENSSL_free have each run once.                            *)
(***************************************************************************)
C1_DestroyedExactlyOnceAtNthFree ==
    /\ freeKeyCalls = deallocCalls
    /\ freeKeyCalls = IF freeCalls = planN /\ pc[1] = "idle" THEN 1 ELSE 0

\* N = 3 or more: both up_refs and all N frees have run, the object is gone.
C1_Witness ==
    /\ planN >= 3
    /\ upCalls = planN - 1
    /\ freeCalls = planN
    /\ pc[1] = "idle"
    /\ freeKeyCalls = 1
    /\ deallocCalls = 1

(***************************************************************************)
(* C2.  In every interleaving of wp_ecx_up_ref and wp_ecx_free by threads  *)
(* that follow the ownership discipline, the key material is freed exactly *)
(* once, by the release that brings the count to zero and after every      *)
(* up_ref before it, and no thread that still owns a reference sees the    *)
(* object destroyed: never more than one destruction; once destroyed no    *)
(* thread owns a reference or is inside wp_ecx_up_ref; and when every      *)
(* reference has been released and every call has returned, the object     *)
(* has been destroyed.                                                     *)
(***************************************************************************)
C2_FreedExactlyOnceInEveryInterleaving ==
    /\ freeKeyCalls <= 1
    /\ deallocCalls <= 1
    /\ deallocCalls >= 1 =>
          \A t \in Threads : held[t] = 0 /\ t \notin InUpRef
    /\ (\A t \in Threads : held[t] = 0 /\ pc[t] = "idle") =>
          freeKeyCalls = 1 /\ deallocCalls = 1

(***************************************************************************)
(* C3.  Every increment and decrement of refCnt by wp_ecx_up_ref and       *)
(* wp_ecx_free is executed while the calling thread holds the object's     *)
(* mutex, also when a lock acquisition reports failure; so no two count    *)
(* mutations overlap.                                                      *)
(***************************************************************************)
C3_CountMutatedOnlyUnderMutex ==
    /\ \A t \in Threads : pc[t] \in CountAccess => mutex = t
    /\ \A t, u \in Threads :
          pc[t] \in CountAccess /\ pc[u] \in CountAccess => t = u

\* Bit is in selection; bit is a power of two.
HasBit(selection, bit) == (selection \div bit) % 2 = 1

\* The public bytes of an object: the stored ones, or else the ones that
\* belong to its private value.
PublicBytes(ecx) ==
    IF ecx.key.pub # Zeros(ecx.data.len) THEN ecx.key.pub
    ELSE MakePublic(ecx.key.priv)

(***************************************************************************)
(* C4.  A call of wp_ecx_import that returns failure leaves hasPub,        *)
(* hasPriv and the key material of the object exactly as they were before  *)
(* the call, whatever the selection and whichever of the import steps      *)
(* succeeded: a call for both components applies both or neither.          *)
(***************************************************************************)
C4_FailedImportChangesNothing ==
    [][(res.op = "none" /\ res'.op = "import" /\ res'.ok = 0)
          => keys' = keys]_vars

(***************************************************************************)
(* C5.  When wp_ecx_export runs with the private-key bit selected on an    *)
(* object that has both parts and no primitive fails, the list the sink    *)
(* gets has one entry named public-key with the public bytes and one named *)
(* private-key with the private bytes; without the private-key bit the     *)
(* list is exactly the public-key entry.                                   *)
(***************************************************************************)
C5_SinkGetsNamedPublicAndPrivate ==
    (/\ res.op = "export"
     /\ res.sinkCalls = 1
     /\ res.fault = "none"
     /\ keys[res.k].hasPub = 1
     /\ keys[res.k].hasPriv = 1)
    => IF HasBit(res.selection, OSSL_KEYMGMT_SELECT_PRIVATE_KEY)
       THEN /\ Len(res.params) = 2
            /\ \E i \in 1..Len(res.params) :
                  res.params[i] = [key |-> OSSL_PKEY_PARAM_PUB_KEY,
                                   data |-> PublicBytes(keys[res.k])]
            /\ \E i \in 1..Len(res.params) :
                  res.params[i] = [key |-> OSSL_PKEY_PARAM_PRIV_KEY,
                                   data |-> keys[res.k].key.priv]
       ELSE res.params = <<[key |-> OSSL_PKEY_PARAM_PUB_KEY,
                            data |-> PublicBytes(keys[res.k])]>>

(***************************************************************************)
(* C6.  On every way out of wp_ecx_export the transient buffer is released *)
(* exactly once, and every byte of it that key material was written to is  *)
(* zero when it is released, the private bytes included.                   *)
(***************************************************************************)
C6_BufferZeroedAndReleasedOnce ==
    res.op = "export"
    => /\ res.frees = res.allocs
       /\ \A i \in res.written : res.released[i] = 0

(***************************************************************************)
(* C7.  If the public or the private export primitive fails during         *)
(* wp_ecx_export, the call returns failure and the sink is not invoked.    *)
(***************************************************************************)
C7_PrimitiveFailureStopsExport ==
    (res.op = "export" /\ (res.pubRc # 0 \/ res.privRc # 0))
    => res.ok = 0 /\ res.sinkCalls = 0

(***************************************************************************)
(* C8.  wp_ecx_has(key, selection) returns true if and only if the         *)
(* provider is running, key is not null, hasPub is set when the public-key *)
(* bit is selected and hasPriv is set when the private-key bit is          *)
(* selected; a null key is never dereferenced.                             *)
(***************************************************************************)
C8_HasIffRunningNonNullAndFlagsSet ==
    res.op = "has"
    => /\ res.ok \in {0, 1}
       /\ (res.ok = 1) <=>
             /\ res.running
             /\ Deref(res.k) # NULL
             /\ HasBit(res.selection, OSSL_KEYMGMT_SELECT_PUBLIC_KEY)
                   => Deref(res.k).hasPub = 1
             /\ HasBit(res.selection, OSSL_KEYMGMT_SELECT_PRIVATE_KEY)
                   => Deref(res.k).hasPriv = 1
       /\ ~res.derefNull

\* has(key, both) answered false on an object that has the public part only.
C8_Witness ==
    /\ res.op = "has"
    /\ res.running
    /\ res.k = 1
    /\ res.selection = OSSL_KEYMGMT_SELECT_KEYPAIR
    /\ keys[1] # NULL
    /\ keys[1].hasPub = 1
    /\ keys[1].hasPriv = 0
    /\ res.ok = 0

(***************************************************************************)
(* C9.  wp_ecx_match(a, b, selection) with a selection that is not zero    *)
(* returns true only if a and b are of the same family; with the private   *)
(* bit, only if both have hasPriv and their private bytes have the same    *)
(* length and are equal over all of it; likewise with the public bit.      *)
(* When a key lacks a selected component the result is false and no export *)
(* primitive is called for that component.                                 *)
(***************************************************************************)
C9_MatchRequiresFamilyAndEqualBytes ==
    res.op = "match"
    => LET a == keys[res.a]
           b == keys[res.b]
           priv == HasBit(res.selection, OSSL_KEYMGMT_SELECT_PRIVATE_KEY)
           pub == HasBit(res.selection, OSSL_KEYMGMT_SELECT_PUBLIC_KEY)
       IN  /\ (res.selection # 0 /\ res.ok = 1)
                 => /\ a.data.keyType = b.data.keyType
                    /\ priv => /\ a.hasPriv = 1 /\ b.hasPriv = 1
                               /\ Len(a.key.priv) = Len(b.key.priv)
                               /\ \A i \in 1..Len(a.key.priv) :
                                     a.key.priv[i] = b.key.priv[i]
                    /\ pub => /\ a.hasPub = 1 /\ b.hasPub = 1
                              /\ Len(PublicBytes(a)) = Len(PublicBytes(b))
                              /\ \A i \in 1..Len(PublicBytes(a)) :
                                    PublicBytes(a)[i] = PublicBytes(b)[i]
           /\ (priv /\ (a.hasPriv = 0 \/ b.hasPriv = 0))
                 => res.ok = 0 /\ res.privCalls = 0
           /\ (pub /\ (a.hasPub = 0 \/ b.hasPub = 0))
                 => res.ok = 0 /\ res.pubCalls = 0

\* Two objects with equal private and public bytes matched on both parts.
C9_Witness ==
    /\ res.op = "match"
    /\ res.a # res.b
    /\ res.selection = OSSL_KEYMGMT_SELECT_KEYPAIR
    /\ res.ok = 1
    /\ res.privCalls = 2
    /\ res.pubCalls = 2

(***************************************************************************)
(* C10.  In a running provider whose export primitives answer the same for *)
(* the same object: wp_ecx_match(k, k, public|private) is true for every   *)
(* key k that has both components, and wp_ecx_match(a, b, sel) equals      *)
(* wp_ecx_match(b, a, sel) for keys of any families and every sel.         *)
(***************************************************************************)
C10_MatchReflexiveAndSymmetric ==
    (res.op = "match" /\ res.running)
    => /\ (/\ res.a = res.b
           /\ res.selection = OSSL_KEYMGMT_SELECT_KEYPAIR
           /\ res.fault.k = 0
           /\ keys[res.a].hasPub = 1
           /\ keys[res.a].hasPriv = 1) => res.ok = 1
       /\ res.ok = wp_ecx_match(keys[res.b], keys[res.a], res.selection,
                                res.running, FailsOn(res.b, res.fault),
                                FailsOn(res.a, res.fault)).ok

\* Two objects of one family whose public bytes differ, compared on the
\* public part with no primitive failing.
C10_Witness ==
    /\ res.op = "match"
    /\ res.running
    /\ res.a # res.b
    /\ res.fault.k = 0
    /\ res.selection = OSSL_KEYMGMT_SELECT_PUBLIC_KEY
    /\ keys[res.a].data = keys[res.b].data
    /\ keys[res.a].hasPub = 1
    /\ keys[res.b].hasPub = 1
    /\ PublicBytes(keys[res.a]) # PublicBytes(keys[res.b])
    /\ res.ok = 0

(***************************************************************************)
(* C11.  wp_ecx_import fails when the input list holds neither a selected  *)
(* private-key entry nor a selected public-key entry, a selection without  *)
(* both bits included.  When it succeeds with a selected private-key entry *)
(* present, hasPriv and hasPub are set afterwards; when it succeeds with   *)
(* only a selected public-key entry present, hasPub is set and hasPriv is  *)
(* what it was.                                                            *)
(***************************************************************************)
C11_ImportNeedsAnEntryAndSetsFlags ==
    res.op = "import"
    => LET privIn == /\ HasBit(res.selection,
                               OSSL_KEYMGMT_SELECT_PRIVATE_KEY)
                     /\ res.privKind # "absent"
           pubIn == /\ HasBit(res.selection, OSSL_KEYMGMT_SELECT_PUBLIC_KEY)
                    /\ res.pubKind # "absent"
       IN  /\ (~privIn /\ ~pubIn) => res.ok = 0
           /\ (res.ok = 1 /\ privIn)
                 => keys[res.k].hasPriv = 1 /\ keys[res.k].hasPub = 1
           /\ (res.ok = 1 /\ ~privIn /\ pubIn)
                 => /\ keys[res.k].hasPub = 1
                    /\ keys[res.k].hasPriv = res.hadPriv

\* A private-key entry alone imported with both parts selected.
C11_Witness ==
    /\ res.op = "import"
    /\ res.ok = 1
    /\ res.selection = OSSL_KEYMGMT_SELECT_KEYPAIR
    /\ res.privKind = "octet"
    /\ res.pubKind = "absent"
    /\ res.hadPriv = 0
    /\ keys[res.k].hasPriv = 1
    /\ keys[res.k].hasPub = 1

C13_LoadTakesObjectAndEmptiesSlot ==
    res.op = "load"
    => /\ res.ret = res.before
       /\ keys[res.to] = res.before
       /\ keys[res.slot] = NULL
       /\ res.before = NULL => res.ret = NULL
       /\ res.before # NULL => res.ret.refCnt = res.before.refCnt

\* A key with two references taken out of its slot.
C13_Witness ==
    /\ res.op = "load"
    /\ res.ret # NULL
    /\ res.ret.refCnt = 2
    /\ keys[res.slot] = NULL
    /\ keys[res.to] = res.ret

(***************************************************************************)
(* C14.  wp_ecx_new returns either an object with reference count 1,       *)
(* hasPub and hasPriv clear and the requested descriptor, or NULL.  When   *)
(* it returns NULL (provider not running, allocation, initKey or           *)
(* wc_InitMutex failing) no storage stays allocated, and freeKey was       *)
(* called once if initKey had succeeded and not at all if it had not.      *)
(***************************************************************************)
C14_NewGivesFreshObjectOrNothing ==
    res.op = "new"
    => IF keys[res.k] # NULL
       THEN /\ keys[res.k].refCnt = 1
            /\ keys[res.k].hasPub = 0
            /\ keys[res.k].hasPriv = 0
            /\ keys[res.k].data = res.data
            /\ res.allocs = 1
            /\ res.frees = 0
            /\ res.freeKey = 0
       ELSE /\ res.frees = res.allocs
            /\ res.freeKey =
                  IF res.running /\ res.why \notin {"alloc", "init"}
                  THEN 1 ELSE 0

\* wc_InitMutex failed after initKey had succeeded.
C14_Witness ==
    /\ res.op = "new"
    /\ res.running
    /\ res.why = "mutex"
    /\ keys[res.k] = NULL
    /\ res.allocs = 1
    /\ res.frees = 1
    /\ res.freeKey = 1

(***************************************************************************)
(* C15.  wp_ecx_gen, once its wp_ecx_new has given an object, makes a key  *)
(* of the context's descriptor.  If the selection of the context has a bit *)
(* of the key pair, makeKey is called once; when it fails the object is    *)
(* destroyed exactly once and NULL is returned, when it succeeds the key   *)
(* has hasPub and hasPriv set and reference count 1.  If the selection has *)
(* no bit of the key pair, makeKey is not called and the key has both      *)
(* flags clear.                                                            *)
(***************************************************************************)
C15_GenMakesKeyOrDestroysIt ==
    (res.op = "gen" /\ res.running /\ res.why = "ok")
    => IF \/ HasBit(gen.ctx.selection, OSSL_KEYMGMT_SELECT_PRIVATE_KEY)
          \/ HasBit(gen.ctx.selection, OSSL_KEYMGMT_SELECT_PUBLIC_KEY)
       THEN /\ res.makeCalls = 1
            /\ res.allocs = 1
            /\ IF res.makeFails
               THEN /\ keys[res.k] = NULL
                    /\ res.freeKey = 1
                    /\ res.frees = 1
               ELSE /\ keys[res.k] # NULL
                    /\ keys[res.k].data = gen.ctx.data
                    /\ keys[res.k].hasPub = 1
                    /\ keys[res.k].hasPriv = 1
                    /\ keys[res.k].refCnt = 1
                    /\ res.freeKey = 0
                    /\ res.frees = 0
       ELSE /\ res.makeCalls = 0
            /\ keys[res.k] # NULL
            /\ keys[res.k].data = gen.ctx.data
            /\ keys[res.k].hasPub = 0
            /\ keys[res.k].hasPriv = 0
            /\ keys[res.k].refCnt = 1

\* makeKey failed on the object that wp_ecx_new had made.
C15_Witness ==
    /\ res.op = "gen"
    /\ res.running
    /\ res.why = "ok"
    /\ res.makeFails
    /\ res.makeCalls = 1
    /\ keys[res.k] = NULL
    /\ res.freeKey = 1
    /\ res.frees = 1

\* The group-name entry is not in the list, or is the expected name.
NameAbsentOrExpected(entry, expected) ==
    \/ entry.kind = "absent"
    \/ entry.kind = "utf8" /\ entry.data = expected

(***************************************************************************)
(* C16.  wp_ecx_gen_set_params, and wp_ecx_gen_init through it, fails for  *)
(* every group-name that is present and is not the expected name of the    *)
(* context, every proper prefix of that name and the empty string          *)
(* included, and succeeds when group-name is absent or is the name.        *)
(***************************************************************************)
C16_GroupNameMustBeExpectedName ==
    /\ res.op = "gen_set_params"
          => (res.ok = 1 <=> NameAbsentOrExpected(res.entry, res.expected))
    /\ (/\ res.op = "gen_init"
        /\ res.running
        /\ res.why = "ok"
        /\ \E bit \in {1, 2, 4, 128} : HasBit(res.selection, bit))
          => (gen.ctx # NULL
                 <=> NameAbsentOrExpected(res.entry, res.expected))

(***************************************************************************)
(* C17.  wp_ecx_gen_init returns a context if and only if the provider is  *)
(* running, the selection has a bit of the key pair or of all parameters,  *)
(* allocation and wc_InitRng succeed and wp_ecx_gen_set_params accepts the *)
(* parameters.  When it returns NULL the storage of the context is freed   *)
(* and the RNG is released once if it was initialised and not at all if it *)
(* was not.  From gen_init to gen_cleanup the RNG is released exactly      *)
(* once.                                                                   *)
(***************************************************************************)
C17_GenInitAndCleanupBalanceRng ==
    /\ res.op = "gen_init"
          => (gen.ctx # NULL
                 <=> /\ res.running
                     /\ \E bit \in {1, 2, 4, 128} : HasBit(res.selection, bit)
                     /\ res.why = "ok"
                     /\ wp_ecx_gen_set_params([name |-> res.expected],
                                              res.entry) = 1)
    /\ gen.ctx = NULL
          => /\ gen.frees = gen.allocs
             /\ gen.rngFrees = gen.rngInits
             /\ gen.rngFrees <= 1
    /\ gen.ctx # NULL
          => /\ gen.allocs = 1 /\ gen.frees = 0
             /\ gen.rngInits = 1 /\ gen.rngFrees = 0
    /\ res.op = "gen_cleanup"
          => /\ gen.ctx = NULL
             /\ gen.rngInits = 1 /\ gen.rngFrees = 1
             /\ gen.allocs = 1 /\ gen.frees = 1

\* wp_ecx_gen_init gave up after wc_InitRng because of the parameters.
C17_Witness ==
    /\ res.op = "gen_init"
    /\ res.running
    /\ res.why = "ok"
    /\ gen.ctx = NULL
    /\ gen.rngInits = 1
    /\ gen.rngFrees = 1
    /\ gen.allocs = 1
    /\ gen.frees = 1

(***************************************************************************)
(* C18.  For X25519 and X448 keys validate returns true if and only if the *)
(* public bit is not selected, or hasPub is set and exportPub succeeds and *)
(* checkPub accepts the exported bytes, and the private bit is not         *)
(* selected or hasPriv is set.  No check is run on the private component,  *)
(* and the object is left as it was: flags, material, reference count.     *)
(***************************************************************************)
C18_XValidateChecksPublicOnly ==
    (res.op = "validate" /\ IsX(keys[res.k].data))
    => /\ (res.ok = 1)
             <=> /\ \/ ~HasBit(res.selection, OSSL_KEYMGMT_SELECT_PUBLIC_KEY)
                    \/ /\ keys[res.k].hasPub = 1
                       /\ res.fault # "export"
                       /\ res.fault # "checkPub"
                 /\ \/ ~HasBit(res.selection,
                               OSSL_KEYMGMT_SELECT_PRIVATE_KEY)
                    \/ keys[res.k].hasPriv = 1
       /\ res.checkKeyCalls = 0
       /\ res.checkPubCalls <= res.exportCalls
       /\ ~HasBit(res.selection, OSSL_KEYMGMT_SELECT_PUBLIC_KEY)
             => res.exportCalls = 0 /\ res.checkPubCalls = 0
       /\ keys[res.k] = res.before

\* A public-only X key asked for both parts: the public part passes, the
\* private part is missing.
C18_Witness ==
    /\ res.op = "validate"
    /\ IsX(keys[res.k].data)
    /\ res.selection = OSSL_KEYMGMT_SELECT_KEYPAIR
    /\ res.fault = "none"
    /\ keys[res.k].hasPub = 1
    /\ keys[res.k].hasPriv = 0
    /\ res.checkPubCalls = 1
    /\ res.ok = 0

(***************************************************************************)
(* C19.  For Ed25519 and Ed448 keys validate with only the public bit      *)
(* returns hasPub, with only the private bit returns hasPriv, and with     *)
(* both bits returns true if and only if hasPub and hasPriv are set and    *)
(* checkKey accepts the key.  checkKey is called only when both bits are   *)
(* selected and both components are there, and the result is the same for  *)
(* every checkType.                                                        *)
(***************************************************************************)
C19_EdValidateChecksPairOnlyForBoth ==
    (res.op = "validate" /\ ~IsX(keys[res.k].data))
    => LET key == keys[res.k]
           pub == HasBit(res.selection, OSSL_KEYMGMT_SELECT_PUBLIC_KEY)
           priv == HasBit(res.selection, OSSL_KEYMGMT_SELECT_PRIVATE_KEY)
       IN  /\ (pub /\ ~priv) => res.ok = key.hasPub
           /\ (priv /\ ~pub) => res.ok = key.hasPriv
           /\ (pub /\ priv)
                 => (res.ok = 1
                        <=> /\ key.hasPub = 1
                            /\ key.hasPriv = 1
                            /\ checkKey(key.data, key.key,
                                        res.fault = "checkKey") = 0)
           /\ res.checkKeyCalls
                 = IF pub /\ priv /\ key.hasPub = 1 /\ key.hasPriv = 1
                   THEN 1 ELSE 0
           /\ \A checkType \in CheckTypes :
                 wp_ecx_ed_validate(key, res.selection, checkType,
                                    res.fault).ok = res.ok

\* A quick check of both parts of an Ed key whose public value does not
\* belong to its private value.
C19_Witness ==
    /\ res.op = "validate"
    /\ ~IsX(keys[res.k].data)
    /\ res.selection = OSSL_KEYMGMT_SELECT_KEYPAIR
    /\ res.checkType = 1
    /\ res.fault = "none"
    /\ keys[res.k].hasPub = 1
    /\ keys[res.k].hasPriv = 1
    /\ res.checkKeyCalls = 1
    /\ res.ok = 0

(***************************************************************************)
(* C20.  When the decode function rejects the container, wp_ecx_dec_decode *)
(* returns success, the callback is not invoked, and the key object made   *)
(* at the start of the call is destroyed exactly once before the return.   *)
(***************************************************************************)
C20_RejectedContainerIsBenignAndFreed ==
    (res.op = "decode" /\ res.decodeCalls = 1 /\ res.fault = "container")
    => /\ res.decodeRc # 0
       /\ res.ok = 1
       /\ res.sinkCalls = 0
       /\ res.allocs = 1
       /\ res.freeKey = 1
       /\ res.frees = 1
       /\ keys[res.k] = NULL

\* The decode function of an X448 public key decoder rejected its input.
C20_Witness ==
    /\ res.op = "decode"
    /\ res.fault = "container"
    /\ res.decodeCalls = 1
    /\ res.decodeRc # 0
    /\ dec.decode = "wp_x448_pub_deocde"
    /\ res.sinkTakes
    /\ res.ok = 1
    /\ res.frees = 1

(***************************************************************************)
(* C21.  When the wolfSSL decode function accepts the container and the    *)
(* little-endian import of the X25519 and X448 decoders then rejects the   *)
(* key material, wp_ecx_dec_decode returns failure, not the success of     *)
(* data that is no match, and the key object of the call is released.      *)
(***************************************************************************)
C21_RejectedMaterialIsFailure ==
    (/\ res.op = "decode"
     /\ res.decodeCalls = 1
     /\ res.fault = "material"
     /\ IsX(DataOfType(dec.keyType)))
    => /\ res.ok = 0
       /\ res.sinkCalls = 0
       /\ res.frees = 1
       /\ res.freeKey = 1

(***************************************************************************)
(* C22.  On a successful decode the callback is invoked exactly once, with *)
(* a key object of the family of the decoder and with the type tag of that *)
(* family; the key of a public container has hasPub set and hasPriv clear, *)
(* the key of a private container has both set.  The callback is never     *)
(* invoked when reading or decoding failed.                                *)
(***************************************************************************)
C22_SinkGetsTaggedKeyOfTheFamily ==
    res.op = "decode"
    => IF res.decodeCalls = 1 /\ res.decodeRc = 0
       THEN /\ res.sinkCalls = 1
            /\ res.params.reference.data.keyType = dec.keyType
            /\ <<dec.keyType, res.params.dataType.str>>
                   \in {<<WP_KEY_TYPE_X25519, "X25519">>,
                        <<WP_KEY_TYPE_X448, "X448">>,
                        <<WP_KEY_TYPE_ED25519, "ED25519">>,
                        <<WP_KEY_TYPE_ED448, "ED448">>}
            /\ dec.format = WP_ENC_FORMAT_SPKI
                  => /\ res.params.reference.hasPub = 1
                     /\ res.params.reference.hasPriv = 0
            /\ dec.format = WP_ENC_FORMAT_PKI
                  => /\ res.params.reference.hasPub = 1
                     /\ res.params.reference.hasPriv = 1
       ELSE res.sinkCalls = 0

\* An Ed448 private key was decoded and handed to the callback.
C22_Witness ==
    /\ res.op = "decode"
    /\ res.decodeCalls = 1
    /\ res.decodeRc = 0
    /\ res.sinkCalls = 1
    /\ dec.keyType = WP_KEY_TYPE_ED448
    /\ dec.format = WP_ENC_FORMAT_PKI
    /\ res.params.reference.hasPriv = 1
    /\ res.params.dataType.str = "ED448"

(***************************************************************************)
(* C23.  The security-bits value of get_params is 192 for every descriptor *)
(* of at least 448 bits, 128 for every descriptor of at least 255 and less *)
(* than 448 bits, and 0 for any smaller one: 128 for X25519 and Ed25519,   *)
(* 192 for X448 and Ed448.  bits and max-size are the bit size and the     *)
(* encoded length of the descriptor.                                       *)
(***************************************************************************)
C23_SecurityBitsFollowBitSize ==
    /\ res.op = "security_bits"
          => res.ret = IF res.bits >= 448 THEN 192
                       ELSE IF res.bits >= 255 THEN 128 ELSE 0
    /\ (res.op = "get_params" /\ res.ok = 1)
          => /\ res.request[OSSL_PKEY_PARAM_SECURITY_BITS] # Absent
                   => res.params[OSSL_PKEY_PARAM_SECURITY_BITS].value
                         = IF keys[res.k].data.keyType
                                 \in {WP_KEY_TYPE_X25519, WP_KEY_TYPE_ED25519}
                           THEN 128 ELSE 192
             /\ res.request[OSSL_PKEY_PARAM_BITS] # Absent
                   => res.params[OSSL_PKEY_PARAM_BITS].value
                         = keys[res.k].data.bits
             /\ res.request[OSSL_PKEY_PARAM_MAX_SIZE] # Absent
                   => res.params[OSSL_PKEY_PARAM_MAX_SIZE].value
                         = keys[res.k].data.len

\* get_params has reported the three numbers of an X448 key.
C23_Witness ==
    /\ res.op = "get_params"
    /\ res.ok = 1
    /\ keys[res.k].data.keyType = WP_KEY_TYPE_X448
    /\ res.params[OSSL_PKEY_PARAM_SECURITY_BITS] = [kind |-> "int",
                                                    value |-> 192]
    /\ res.params[OSSL_PKEY_PARAM_BITS] = [kind |-> "int", value |-> 448]
    /\ res.params[OSSL_PKEY_PARAM_MAX_SIZE].value = CURVE448_KEY_SIZE

(***************************************************************************)
(* C24.  For X25519 and for X448, importing through importPub of the       *)
(* descriptor a public key whose last byte has its top bit set succeeds    *)
(* and stores the public value that importing the same bytes with that bit *)
(* cleared stores; the caller's buffer is not modified.                    *)
(***************************************************************************)
C24_TopBitOfPublicKeyIsMasked ==
    (/\ res.op = "set_params"
     /\ IsX(res.before.data)
     /\ res.entry.kind = "octet"
     /\ Len(res.entry.data) = res.before.data.len
     /\ res.entry.data[res.before.data.len] >= 128)
    => LET n == res.before.data.len
           cleared == [res.entry.data EXCEPT ![n] = @ - 128]
       IN  /\ res.ok = 1
           /\ keys[res.k].hasPub = 1
           /\ keys[res.k].key.pub
                 = importPub(res.before.data, cleared, res.before.key).key.pub
           /\ keys[res.k].key.pub[n] < 128

(***************************************************************************)
(* C25.  When wc_LockMutex fails, wp_ecx_up_ref returns 0, leaves the      *)
(* reference count as it was and does not unlock the mutex; when it        *)
(* succeeds, wp_ecx_up_ref returns 1 with the count one higher and the     *)
(* mutex unlocked.                                                         *)
(***************************************************************************)
C25_UpRefCountsOnlyUnderLock ==
    res.op = "up_ref"
    => IF res.lockOk
       THEN /\ res.ok = 1
            /\ keys[res.k] = [res.before EXCEPT !.refCnt = @ + 1]
            /\ res.unlocks = 1
       ELSE /\ res.ok = 0
            /\ keys[res.k] = res.before
            /\ res.unlocks = 0

\* A failed lock on an object that has two references.
C25_Witness ==
    /\ res.op = "up_ref"
    /\ ~res.lockOk
    /\ res.ok = 0
    /\ keys[res.k].refCnt = 2

\* The octet fields of get_params in the order the code comes to them.
OctetFields ==
    <<OSSL_PKEY_PARAM_ENCODED_PUBLIC_KEY, OSSL_PKEY_PARAM_PUB_KEY,
      OSSL_PKEY_PARAM_PRIV_KEY>>

\* The calls of export primitives that the last get_params made for a field.
CallsFor(name) == SelectSeq(res.calls, LAMBDA c : c.name = name)

\* The last get_params came to field i: no integer entry and no export
\* primitive of an earlier field failed.
CameTo(i) ==
    /\ \A n \in {OSSL_PKEY_PARAM_MAX_SIZE, OSSL_PKEY_PARAM_BITS,
                 OSSL_PKEY_PARAM_SECURITY_BITS} :
          res.request[n] # WrongType
    /\ \A j \in 1..(i - 1) :
          \A c \in 1..Len(CallsFor(OctetFields[j])) :
             CallsFor(OctetFields[j])[c].rc = 0

(***************************************************************************)
(* C26.  For each octet field that get_params comes to (encoded-pub-key,   *)
(* pub, priv): a request with a null buffer calls no export primitive,     *)
(* gets the encoded length of the descriptor as return_size and does not   *)
(* fail; a request with a buffer calls the export primitive of the field   *)
(* once, gets the exported length as return_size, and makes get_params     *)
(* fail if and only if that primitive fails; a field that is not in the    *)
(* list stays out of it.                                                   *)
(***************************************************************************)
C26_OctetFieldsProbeOrExport ==
    res.op = "get_params"
    => /\ \A i \in 1..3 :
             LET name == OctetFields[i]
                 req == res.request[name]
                 out == res.params[name]
                 calls == CallsFor(name)
             IN  /\ req = Absent => (out = Absent /\ calls = <<>>)
                 /\ (CameTo(i) /\ req # Absent /\ req.data = NULL)
                       => /\ calls = <<>>
                          /\ out = [req EXCEPT
                                       !.return_size = keys[res.k].data.len]
                          /\ (i = 3 => res.ok = 1)
                 /\ (CameTo(i) /\ req # Absent /\ req.data # NULL)
                       => /\ Len(calls) = 1
                          /\ calls[1].part = IF i = 3 THEN "exportPriv"
                                             ELSE "exportPub"
                          /\ out.return_size = calls[1].outLen
                          /\ calls[1].rc = 0
                                => /\ Len(out.data.bytes) = out.return_size
                                   /\ out.return_size = keys[res.k].data.len
                          /\ calls[1].rc # 0 => res.ok = 0
                          /\ (i = 3 /\ calls[1].rc = 0) => res.ok = 1
                 /\ ~CameTo(i) => (out = req /\ calls = <<>>)
       /\ res.ok = 1 <=> CameTo(4)

\* The length of the public key was asked for and the private key taken in
\* one call, and the export of the private key failed.
C26_Witness ==
    /\ res.op = "get_params"
    /\ res.request[OSSL_PKEY_PARAM_PUB_KEY] # Absent
    /\ res.request[OSSL_PKEY_PARAM_PUB_KEY].data = NULL
    /\ res.params[OSSL_PKEY_PARAM_PUB_KEY].return_size = keys[res.k].data.len
    /\ res.request[OSSL_PKEY_PARAM_PRIV_KEY] # Absent
    /\ res.request[OSSL_PKEY_PARAM_PRIV_KEY].data # NULL
    /\ Len(CallsFor(OSSL_PKEY_PARAM_PRIV_KEY)) = 1
    /\ res.fault = "exportPriv"
    /\ res.ok = 0

(***************************************************************************)
(* C27.  While the provider is not running, every entry point of key       *)
(* management (new, dup, gen_init, gen, has, match, validate, import,      *)
(* export, get_params, set_params, the making of a decoder) reports        *)
(* failure and calls no import, export, generate or validate primitive on  *)
(* key material.                                                           *)
(***************************************************************************)
C27_NothingRunsWhenNotRunning ==
    (/\ res.op \in {"new", "dup", "gen_init", "gen", "has", "match",
                    "validate", "import", "export", "get_params",
                    "set_params", "dec_new"}
     /\ ~res.running)
    => /\ res.op = "new" => (keys[res.k] = NULL /\ res.allocs = 0)
       /\ res.op = "dup" => keys[res.dst] = NULL
       /\ res.op = "gen_init" => gen.ctx = NULL
       /\ res.op = "gen" => (keys[res.k] = NULL /\ res.makeCalls = 0)
       /\ res.op = "has" => res.ok = 0
       /\ res.op = "match"
             => (res.ok = 0 /\ res.privCalls = 0 /\ res.pubCalls = 0)
       /\ res.op = "validate"
             => /\ res.ok = 0
                /\ res.exportCalls = 0
                /\ res.checkPubCalls = 0
                /\ res.checkKeyCalls = 0
       /\ res.op = "import"
             => (res.ok = 0 /\ res.privCalls = 0 /\ res.pubCalls = 0)
       /\ res.op = "export"
             => /\ res.ok = 0
                /\ res.allocs = 0
                /\ res.sinkCalls = 0
                /\ res.privCalls = 0
       /\ res.op = "get_params" => (res.ok = 0 /\ res.calls = <<>>)
       /\ res.op = "set_params" => (res.ok = 0 /\ res.pubCalls = 0)
       /\ res.op = "dec_new" => res.ret = NULL

(***************************************************************************)
(* C28. In every state every key object that has a private key has a       *)
(* public key, and in no step does a flag of an object that lives on fall  *)
(* from 1 to 0.  A pointer that holds an object before and after a step    *)
(* holds the same object: an object is put only into an empty pointer.     *)
(***************************************************************************)
PrivHasPub(ecx) == ecx.hasPriv = 1 => ecx.hasPub = 1

FlagsStay(k) ==
    (keys[k] # NULL /\ keys'[k] # NULL)
        => /\ keys'[k].hasPub >= keys[k].hasPub
           /\ keys'[k].hasPriv >= keys[k].hasPriv

C28_PrivateImpliesPublicAndFlagsStay ==
    /\ [](\A k \in KeyIds : keys[k] # NULL => PrivHasPub(keys[k]))
    /\ [][\A k \in KeyIds : FlagsStay(k)]_vars

\* A public-only object took a private key without a public one and was
\* then copied.
C28_Witness ==
    /\ res.op = "dup"
    /\ res.selection = OSSL_KEYMGMT_SELECT_KEYPAIR
    /\ keys[1] # NULL
    /\ keys[1].hasPriv = 1
    /\ keys[1].hasPub = 1
    /\ keys[1].key.pub = KeyBytes(keys[1].data.len, 2)
    /\ keys[1].key.priv = KeyBytes(keys[1].data.len, 1)
    /\ keys[2] = keys[1]

(***************************************************************************)
(* C29.  Whatever way wp_ecx_dec_decode goes (allocation failure, read     *)
(* failure, rejection by the decode function, callback failure, callback   *)
(* success) and whether the callback takes the key out of the reference    *)
(* with wp_ecx_load or not, on return the key object allocated by the call *)
(* is either destroyed exactly once or owned by the one who took it, not   *)
(* both and not neither.                                                   *)
(***************************************************************************)
C29_DecodedKeyIsFreedOrOwned ==
    (res.op = "decode" /\ res.allocs = 1)
    => \/ res.frees = 1 /\ keys[res.k] = NULL
       \/ res.frees = 0 /\ keys[res.k] # NULL

(***************************************************************************)
(* C30.  When get_params is given an octet entry with a buffer, the        *)
(* capacity it hands to the export primitive is at most the data_size of   *)
(* the entry, and no more than data_size bytes are written into the        *)
(* buffer, whatever return_size the entry came with.                       *)
(***************************************************************************)
C30_CapacityIsTheBufferSize ==
    res.op = "get_params"
    => \A i \in 1..Len(res.calls) :
          /\ res.calls[i].cap <= res.request[res.calls[i].name].data_size
          /\ Len(res.params[res.calls[i].name].data.bytes)
                <= res.request[res.calls[i].name].data_size

====
